---- MODULE Spec2Model ----
(***************************************************************************)
(* Admission, routing and bandwidth allocation core of the LEO satellite   *)
(* resource manager (src/src/dsroq, src/src/admission).                    *)
(*                                                                         *)
(* Bandwidths are exact rationals of Mbps, held as integers in units of    *)
(* 1/Scale Mbps: Scale makes 0.1 Mbps (the granularity), the QoS ratios in *)
(* tenths of whole Mbps and max_bandwidth_mbps / n for n = 1..6 whole      *)
(* numbers of units.  Queue lengths are held in units of 1/(10 * Scale),   *)
(* so that "bandwidth * 0.1" is the bandwidth's own number of units.  A    *)
(* link's utilization is held in units of 1/capacity of that link, so that *)
(* "bandwidth / capacity" is the bandwidth's own number of units and       *)
(* capacity * (1 - utilization) is capacity - utilization.                 *)
(*                                                                         *)
(* Left out: what the code only writes and never reads back in these       *)
(* operations (allocation_history, timestamps, timing lists, log output).  *)
(***************************************************************************)
EXTENDS Integers, Sequences, FiniteSets, TLC

VARIABLES
    \* ---- BandwidthAllocator (src/src/dsroq/bandwidth_allocator.py)
    active_allocations,          \* dict flow_id -> info, in insertion order
    link_allocations,            \* defaultdict (src, dst) -> allocated bandwidth
    total_allocated_bandwidth,
    alloc_ops,                   \* number of allocator calls made so far
    alloc_last,                  \* the last allocator call: its arguments, what it found, result
    committed_bw,                \* history: flow_id -> bandwidth its last commit added per hop
    \* ---- NetworkState (src/src/core/state.py)
    link_capacity,               \* (src, dst) -> capacity; its keys are the links
    link_utilization,            \* (src, dst) -> utilization, a key per link
    queue_lengths,               \* satellite id -> queue length, a key per satellite
    active_flows,
    sat_active,                  \* ids of the satellites whose 'active' flag is set
    \* ---- MCTSRouter (src/src/dsroq/mcts_routing.py)
    route_history,               \* flow_id -> (route, timestamp)
    last_reroute_time,           \* flow_id -> timestamp
    now_ms,                      \* time.time() * 1000
    rt_ops,                      \* number of router-side steps made so far
    rt_last,                     \* the last find_route call: flow id, time, returned route
    rt_returned,                 \* history: flow_id -> last route returned for it, and when
    \* ---- LyapunovScheduler (src/src/dsroq/core.py)
    queue_states,                \* node id -> backlog (an absent key reads as 0)
    \* ---- DSROQController (src/src/dsroq/dsroq_controller.py)
    total_requests,
    successful_allocations,
    failed_allocations,
    ctrl_ops,                    \* number of controller calls made so far
    ctrl_last,                   \* the last controller call and what it returned
    ctrl_prev,                   \* the controller call before it
    ns_before,                   \* history: the NetworkState maps before the last call
    ns_before2,                  \* history: the same, before the call before it
    ctrl_call,                   \* history: the admission decision the last call was handed
    committed_results,           \* history: results committed and not yet released, in order
    returned_results,            \* history: every result process_user_request returned
    \* ---- admission controllers (src/src/admission/)
    thr_stats,                   \* ThresholdAdmissionController: its request counters
    pos_stats,                   \* PositioningAwareAdmissionController: its request counters
    base_stats,                  \* the counters of its base_controller
    adm_ops,                     \* number of admission decisions made so far
    adm_last,                    \* the last decision: controller, request, input, results
    \* ---- SimulationEngine (src/src/simulation/simulation_engine.py)
    eng_time,                    \* SimulationEngine.current_time
    active_users,                \* dict user_id -> session record, in insertion order
    event_queue,                 \* EventScheduler.event_queue: the events not yet popped
    eng_pc,                      \* where _simulation_step stands
    \* ---- EventScheduler (src/src/simulation/event_scheduler.py)
    total_events,                \* EventScheduler.total_events
    processed_events,            \* EventScheduler.processed_events
    ev_ops,                      \* number of scheduler calls made so far
    ev_last,                     \* the last scheduler call and what it returned
    ev_scheduled,                \* history: every event schedule_event was called for
    ev_delivered,                \* history: every event get_events returned, in order
    ev_cancelled,                \* history: every event cancel_events dropped
    \* ---- process_user_request taken in two steps (read, then commit)
    in_flight,                   \* the requests that have read and not yet committed
    overlapped,                  \* history: some request read while another was in flight
    link_committed               \* history: bandwidth committed per link, counted unclamped

allocVars == << active_allocations, link_allocations, total_allocated_bandwidth,
                alloc_ops, alloc_last, committed_bw >>
nsVars == << link_capacity, link_utilization, queue_lengths, active_flows, sat_active >>
routerVars == << route_history, last_reroute_time, now_ms, rt_ops, rt_last, rt_returned >>
ctrlVars == << queue_states, total_requests, successful_allocations, failed_allocations,
               ctrl_ops, ctrl_last, ctrl_prev, ns_before, ns_before2, ctrl_call,
               committed_results, returned_results >>

admVars == << thr_stats, pos_stats, base_stats, adm_ops, adm_last >>

engVars == << eng_time, active_users, event_queue, eng_pc >>

evVars == << total_events, processed_events, ev_ops, ev_last, ev_scheduled, ev_delivered,
            ev_cancelled >>

concVars == << in_flight, overlapped, link_committed >>

vars == << allocVars, nsVars, routerVars, ctrlVars, admVars, engVars, evVars, concVars >>

(***************************************************************************)
(* Bounds and numeric helpers                                              *)
(***************************************************************************)
MaxAllocOps == 3

Scale == 10 * 3
Mbps(x) == x * Scale

Min2(a, b) == IF a <= b THEN a ELSE b
Max2(a, b) == IF a >= b THEN a ELSE b

None == "None"

SatIds == 0 .. 2
LinkKeys == (SatIds \X SatIds)

RECURSIVE SeqSum(_)
SeqSum(s) == IF s = << >> THEN 0 ELSE Head(s) + SeqSum(Tail(s))

\* the hops (route[i], route[i+1]) of a route, in order
Hops(route) == [i \in 1 .. (IF Len(route) < 2 THEN 0 ELSE Len(route) - 1) |->
                   << route[i], route[i + 1] >>]

\* how many hops of route use link
HopCount(route, link) == Cardinality({i \in DOMAIN Hops(route) : Hops(route)[i] = link})

(***************************************************************************)
(* BandwidthAllocator                                                      *)
(***************************************************************************)
QoSClasses == {"best_effort", "assured", "premium", "critical"}

min_bandwidth_mbps == 1
max_bandwidth_mbps == 100

\* bandwidth_granularity = 0.1 Mbps
bandwidth_granularity == Scale \div 10

qos_weights(c) == CASE c = "critical" -> 4
                    [] c = "premium" -> 3
                    [] c = "assured" -> 2
                    [] OTHER -> 1

\* qos_ratios, in tenths
qos_ratios(c) == CASE c = "critical" -> 10
                   [] c = "premium" -> 8
                   [] c = "assured" -> 6
                   [] OTHER -> 3

GetMinQosBandwidth(flow) == (flow.bandwidth_requirement * qos_ratios(flow.qos_class)) \div 10

\* Python round(): to the nearest integer, ties to the even one
PyRound(num, den) ==
    LET q == num \div den
        r == num % den
    IN  IF 2 * r < den THEN q
        ELSE IF 2 * r > den THEN q + 1
        ELSE IF q % 2 = 0 THEN q ELSE q + 1

IsPathFeasible(route, bandwidth, capacity, allocs) ==
    /\ Len(route) >= 2
    /\ \A i \in DOMAIN Hops(route) :
          /\ Hops(route)[i] \in DOMAIN capacity
          /\ capacity[Hops(route)[i]] - allocs[Hops(route)[i]] >= bandwidth

\* min over the hops of capacity - current allocation (absent link: capacity 0)
BottleneckAvailable(route, capacity, allocs) ==
    LET avail(l) == (IF l \in DOMAIN capacity THEN capacity[l] ELSE 0) - allocs[l]
        h == Hops(route)
    IN  CHOOSE m \in {avail(h[i]) : i \in DOMAIN h} :
            \A i \in DOMAIN h : m <= avail(h[i])

CalculateFeasibleBandwidth(route, target_bandwidth, capacity, allocs) ==
    IF Len(route) < 2 THEN 0
    ELSE LET f == Max2(0, Min2(target_bandwidth, BottleneckAvailable(route, capacity, allocs)))
         IN  PyRound(f, bandwidth_granularity) * bandwidth_granularity

\* the donors as the dict lists them, unsorted
SortedByInsertion(allocs) == [i \in 1 .. Len(allocs) |-> i]

\* sorted(active_allocations.items(), key=weight): stable, ascending; the
\* result is the sequence of indices into the allocation list
SortedByWeight(allocs) ==
    LET idx(w) == SelectSeq([i \in 1 .. Len(allocs) |-> i],
                            LAMBDA i : qos_weights(allocs[i].qos_class) = w)
    IN  idx(1) \o idx(2) \o idx(3) \o idx(4)

\* _reclaim_bandwidth: the loop over the sorted donors; returns the updated
\* allocation list and the amount reclaimed
RECURSIVE ReclaimLoop(_, _, _, _, _)
ReclaimLoop(allocs, order, flow, needed_bandwidth, reclaimed) ==
    IF order = << >> \/ reclaimed >= needed_bandwidth
    THEN [allocs |-> allocs, reclaimed |-> reclaimed]
    ELSE LET i == Head(order)
             info == allocs[i]
         IN  IF qos_weights(info.qos_class) < qos_weights(flow.qos_class)
             THEN LET reclaimable == Max2(0, info.bandwidth - info.min_bandwidth)
                      to_reclaim == Min2(reclaimable, needed_bandwidth - reclaimed)
                  IN  IF to_reclaim > 0
                      THEN ReclaimLoop(
                               [allocs EXCEPT ![i].bandwidth = info.bandwidth - to_reclaim],
                               Tail(order), flow, needed_bandwidth, reclaimed + to_reclaim)
                      ELSE ReclaimLoop(allocs, Tail(order), flow, needed_bandwidth, reclaimed)
             ELSE ReclaimLoop(allocs, Tail(order), flow, needed_bandwidth, reclaimed)

ReclaimBandwidth(allocs, flow, needed_bandwidth) ==
    ReclaimLoop(allocs, SortedByWeight(allocs), flow, needed_bandwidth, 0)

\* min(bandwidth, max_bandwidth_mbps / max(1, n + 1) * weight)
ApplyFairnessConstraint(bandwidth, flow, n_active) ==
    LET adjusted_max == (Mbps(max_bandwidth_mbps) \div Max2(1, n_active + 1))
                            * qos_weights(flow.qos_class)
    IN  Min2(bandwidth, adjusted_max)

\* _apply_qos_policy: returns the final bandwidth and the allocation list as
\* the reclamation left it
ApplyQosPolicy(allocs, flow, bandwidth) ==
    LET min_required == GetMinQosBandwidth(flow)
        rec == IF bandwidth < min_required
               THEN ReclaimBandwidth(allocs, flow, min_required - bandwidth)
               ELSE [allocs |-> allocs, reclaimed |-> 0]
        b1 == bandwidth + rec.reclaimed
        b2 == IF flow.qos_class \in {"critical", "premium"}
              THEN Max2(b1, min_required) ELSE b1
    IN  [allocs |-> rec.allocs,
         reclaimed |-> rec.reclaimed,
         bandwidth |-> ApplyFairnessConstraint(b2, flow, Len(rec.allocs))]

IndexOfFlow(allocs, flow_id) ==
    IF \E i \in 1 .. Len(allocs) : allocs[i].flow_id = flow_id
    THEN CHOOSE i \in 1 .. Len(allocs) : allocs[i].flow_id = flow_id
    ELSE 0

\* link_allocations[link_key] += bandwidth for every hop
AddOnRoute(allocs, route, bandwidth) ==
    [l \in LinkKeys |-> allocs[l] + bandwidth * HopCount(route, l)]

\* link_allocations[link_key] = max(0.0, link_allocations[link_key] - bandwidth) per hop
RECURSIVE ReleaseHops(_, _, _)
ReleaseHops(allocs, hops, bandwidth) ==
    IF hops = << >> THEN allocs
    ELSE ReleaseHops([allocs EXCEPT ![Head(hops)] = Max2(0, @ - bandwidth)],
                     Tail(hops), bandwidth)

\* active_allocations[flow_id] = {...}: a known key keeps its place, a new key goes last
RecordAllocation(allocs, flow, route, bandwidth) ==
    LET info == [flow_id |-> flow.flow_id, bandwidth |-> bandwidth, route |-> route,
                 qos_class |-> flow.qos_class, min_bandwidth |-> GetMinQosBandwidth(flow)]
        i == IndexOfFlow(allocs, flow.flow_id)
    IN  IF i = 0 THEN Append(allocs, info) ELSE [allocs EXCEPT ![i] = info]

(***************************************************************************)
(* NetworkState as its providers build it                                  *)
(***************************************************************************)
\* satellite['id'] is the satellite's index in network_state.satellites
NoSatellite == 0 - 1

SatLat(i) == 10 * i
SatLon(i) == 0

\* topology[i][j] == 1 exactly for the links that carry a capacity
Topology == {<< 0, 1 >>, << 1, 0 >>, << 1, 2 >>, << 2, 1 >>}

\* link_capacity.get(link_key, 0.0)
CapacityOf(capacity, l) == IF l \in DOMAIN capacity THEN capacity[l] ELSE 0

\* capacity * (1.0 - utilization), both read with .get(link_key, 0.0)
AvailableOn(capacity, util, l) ==
    IF l \in DOMAIN capacity
    THEN capacity[l] - (IF l \in DOMAIN util THEN util[l] ELSE 0)
    ELSE 0

\* _find_nearest_satellite: the first active satellite at the least distance
FindNearestSatellite(lat, lon, active) ==
    LET d2(i) == (lat - SatLat(i)) * (lat - SatLat(i)) + (lon - SatLon(i)) * (lon - SatLon(i))
    IN  IF active = {} THEN NoSatellite
        ELSE CHOOSE i \in active :
                 \A j \in active : d2(i) < d2(j) \/ (d2(i) = d2(j) /\ i <= j)

(***************************************************************************)
(* MCTSRouter                                                              *)
(***************************************************************************)
min_link_capacity == 1
reroute_cooldown_ms == 5000

NoRoute == [found |-> FALSE, route |-> << >>]
FoundRoute(r) == [found |-> TRUE, route |-> r]

\* _get_neighbors: topology neighbours whose link has min_link_capacity left
GetNeighbors(satellite_id, capacity, util) ==
    {i \in SatIds : /\ i # satellite_id
                    /\ << satellite_id, i >> \in Topology
                    /\ AvailableOn(capacity, util, << satellite_id, i >>)
                           >= Mbps(min_link_capacity)}

\* _evaluate_path: a path of fewer than two satellites scores 0.0; for any
\* longer path the evaluation reaches self._evaluate_beam_hint, an attribute
\* MCTSRouter does not have, and raises AttributeError
EvaluatePath(path) ==
    IF Len(path) < 2 THEN [raised |-> FALSE, reward |-> 0]
    ELSE [raised |-> TRUE, reward |-> 0]

\* _mcts_search: with no untried action at the root every iteration simulates
\* the path [source] and _select_best_path finds no path; otherwise the first
\* iteration expands a child and _simulate evaluates a path of two or more
MctsSearch(source, destination, capacity, util) ==
    LET untried_actions == GetNeighbors(source, capacity, util)
    IN  IF untried_actions = {}
        THEN [raised |-> EvaluatePath(<< source >>).raised, result |-> NoRoute]
        ELSE [raised |-> \E action \in untried_actions :
                             EvaluatePath(<< source, action >>).raised,
              result |-> NoRoute]

\* a same-satellite branch that answers with both end points
SameSatelliteRouteBothEnds(source_satellite) == << source_satellite, source_satellite >>

\* find_route, the branch "source_satellite == destination_satellite"
SameSatelliteRoute(source_satellite) == << source_satellite >>

HasKey(f, k) == k \in DOMAIN f
SetKey(f, k, v) == [x \in (DOMAIN f) \cup {k} |-> IF x = k THEN v ELSE f[x]]

\* find_route: returns the route and the router's two dictionaries
FindRoute(flow, current_time, active, capacity, util, history, last_time) ==
    LET flow_id == flow.flow_id
        same == [ret |-> NoRoute, route_history |-> history, last_reroute_time |-> last_time]
    IN  IF /\ HasKey(last_time, flow_id)
           /\ current_time - last_time[flow_id] < reroute_cooldown_ms
           /\ HasKey(history, flow_id)
        THEN [same EXCEPT !.ret = FoundRoute(history[flow_id].route)]
        ELSE LET source_satellite ==
                     FindNearestSatellite(flow.source[1], flow.source[2], active)
                 destination_satellite ==
                     FindNearestSatellite(flow.destination[1], flow.destination[2], active)
             IN  IF source_satellite = NoSatellite \/ destination_satellite = NoSatellite
                 THEN same
                 ELSE IF source_satellite = destination_satellite
                 THEN [same EXCEPT !.ret = FoundRoute(SameSatelliteRoute(source_satellite))]
                 ELSE LET search == MctsSearch(source_satellite, destination_satellite,
                                               capacity, util)
                          route == search.result
                      IN  IF search.raised THEN same
                          ELSE IF route.found /\ Len(route.route) > 1
                          THEN [ret |-> route,
                                route_history |->
                                    SetKey(history, flow_id,
                                           [route |-> route.route, time |-> current_time]),
                                last_reroute_time |-> SetKey(last_time, flow_id, current_time)]
                          ELSE same

(***************************************************************************)
(* LyapunovScheduler.  DSROQController hands it a dict, so every getattr   *)
(* on the config yields its default: V = 1.0, queue_backlog_limit = 100.0, *)
(* lambda_pos = 0.2.  qos_class is a QoSClass member, never 'EF' or 'AF',  *)
(* so _calculate_qoe_penalty always takes its last branch.                 *)
(***************************************************************************)
service_rate == 50
path_throughput == 50
queue_backlog_limit == 100

\* drift_plus_penalty is kept multiplied by DppDen
DppDen == 10 * Scale * Scale

RECURSIVE Occurrences(_, _)
Occurrences(route, node) ==
    IF route = << >> THEN 0
    ELSE (IF Head(route) = node THEN 1 ELSE 0) + Occurrences(Tail(route), node)

\* _update_queue_states: queue_states[node] += arrival_rate * 0.1 for node in route
UpdateQueueStates(qs, flow, route) ==
    [n \in SatIds |-> qs[n] + Occurrences(route, n) * flow.bandwidth_requirement]

\* _calculate_positioning_penalty, times 4: 0.5 per hop beyond the first,
\* times 1.5 for a route of more than six satellites
PositioningPenalty(route) ==
    IF Len(route) <= 2 THEN 0
    ELSE IF Len(route) > 6 THEN (Len(route) - 2) * 3
    ELSE (Len(route) - 2) * 2

\* _calculate_drift_plus_penalty
DriftPlusPenalty(qs, flow, route) ==
    LET arrival_rate == flow.bandwidth_requirement
        drift == SeqSum([i \in 1 .. Len(route) |->
                            qs[route[i]] * (arrival_rate - Mbps(service_rate))])
        penalty == 10 * Scale * Max2(0, arrival_rate - Mbps(path_throughput))
                       + (Scale * Scale * PositioningPenalty(route)) \div 2
    IN  drift + penalty

\* _make_scheduling_decision: the rate_limit_mbps of the decision
MakeSchedulingDecision(qs, drift_plus_penalty) ==
    LET max_queue_length == CHOOSE m \in {qs[n] : n \in SatIds} :
                                \A n \in SatIds : qs[n] <= m
        is_congested == max_queue_length > queue_backlog_limit * 10 * Scale
    IN  IF drift_plus_penalty > 1000 * DppDen \/ is_congested THEN Mbps(20)
        ELSE IF drift_plus_penalty > 500 * DppDen THEN Mbps(40)
        ELSE Mbps(100)

\* schedule_flow: the decision's rate limit and the scheduler's queue states
ScheduleFlow(qs, flow, route) ==
    LET qs1 == UpdateQueueStates(qs, flow, route)
    IN  [rate_limit_mbps |-> MakeSchedulingDecision(qs1, DriftPlusPenalty(qs1, flow, route)),
         queue_states |-> qs1]

(***************************************************************************)
(* DSROQController                                                         *)
(***************************************************************************)
NoResult == [ok |-> FALSE, flow_id |-> << >>, route |-> << >>, allocated_bandwidth |-> 0]

\* a UserRequest whose user_lat was left None
NoCoordinate == 0 - 999

\* _convert_to_flow_request raises: _find_nearest_satellite computes
\* lat - sat_lat for the first active satellite, a TypeError when lat is None
ConvertRaises(user_request, active) ==
    user_request.user_lat = NoCoordinate /\ active # {}

\* _convert_to_flow_request: the destination is the position of the satellite
\* nearest to the user; flow_id is f"flow_{user_id}_{int(time.time())}"
ConvertToFlowRequest(user_request, active, current_time) ==
    LET destination_satellite ==
            FindNearestSatellite(user_request.user_lat, user_request.user_lon, active)
    IN  [flow_id |-> << user_request.user_id, current_time \div 1000 >>,
         source |-> << user_request.user_lat, user_request.user_lon >>,
         destination |-> IF destination_satellite # NoSatellite
                         THEN << SatLat(destination_satellite), SatLon(destination_satellite) >>
                         ELSE << 0, 0 >>,
         qos_class |-> user_request.qos_class,
         bandwidth_requirement |-> user_request.bandwidth_mbps]

\* an availability that is the bottleneck capacity, whatever is in use
GetPathCapacity(route, capacity, util) ==
    IF Len(route) < 2 THEN 0
    ELSE LET h == Hops(route)
         IN  CHOOSE x \in {CapacityOf(capacity, h[i]) : i \in DOMAIN h} :
                 \A i \in DOMAIN h : x <= CapacityOf(capacity, h[i])

\* _get_path_available_bandwidth
GetPathAvailableBandwidth(route, capacity, util) ==
    IF Len(route) < 2 THEN 0
    ELSE LET h == Hops(route)
             m == CHOOSE x \in {AvailableOn(capacity, util, h[i]) : i \in DOMAIN h} :
                      \A i \in DOMAIN h : x <= AvailableOn(capacity, util, h[i])
         IN  Max2(0, m)

\* an allocation that hands out the scheduler's rate limit whatever the route
\* has left and whatever the flow asked for
AllocateBandwidthAtRateLimit(flow, route, capacity, util, qs) ==
    LET decision == ScheduleFlow(qs, flow, route)
    IN  [bandwidth |-> decision.rate_limit_mbps, queue_states |-> decision.queue_states]

\* allocate_bandwidth: the bandwidth and the scheduler's queue states
AllocateBandwidth(flow, route, capacity, util, qs) ==
    LET available_bandwidth == GetPathAvailableBandwidth(route, capacity, util)
    IN  IF available_bandwidth <= 0
        THEN [bandwidth |-> 0, queue_states |-> qs]
        ELSE LET decision == ScheduleFlow(qs, flow, route)
             IN  [bandwidth |-> Min2(decision.rate_limit_mbps,
                                     Min2(available_bandwidth, flow.bandwidth_requirement)),
                  queue_states |-> decision.queue_states]

\* an exception handler that returns None without counting the failure
FailedAfterExceptionUncounted(failed) == failed

\* process_user_request, "except Exception": self.failed_allocations += 1
FailedAfterException(failed) == failed + 1

\* a failure test that lets an allocation of exactly nothing through
AllocationFailedStrict(allocated_bandwidth) == allocated_bandwidth < 0

\* process_user_request: "if allocated_bandwidth <= 0"
AllocationFailed(allocated_bandwidth) == allocated_bandwidth <= 0

\* _update_network_state, the loop over the hops
RECURSIVE CommitLinks(_, _, _, _)
CommitLinks(util, capacity, hops, bandwidth) ==
    IF hops = << >> THEN util
    ELSE LET l == Head(hops)
         IN  IF l \in DOMAIN capacity
             THEN CommitLinks(
                      [util EXCEPT ![l] = IF capacity[l] > 0
                                          THEN Min2(capacity[l], @ + bandwidth) ELSE @],
                      capacity, Tail(hops), bandwidth)
             ELSE CommitLinks(util, capacity, Tail(hops), bandwidth)

\* _update_network_state, the loop over the satellites
CommitQueues(queue, route, bandwidth) ==
    [n \in DOMAIN queue |-> queue[n] + Occurrences(route, n) * bandwidth]

\* deallocate, the loop over the hops
RECURSIVE ReleaseLinks(_, _, _, _)
ReleaseLinks(util, capacity, hops, bandwidth) ==
    IF hops = << >> THEN util
    ELSE LET l == Head(hops)
         IN  IF l \in DOMAIN capacity
             THEN ReleaseLinks(
                      [util EXCEPT ![l] = IF capacity[l] > 0
                                          THEN Max2(0, @ - bandwidth) ELSE @],
                      capacity, Tail(hops), bandwidth)
             ELSE ReleaseLinks(util, capacity, Tail(hops), bandwidth)

\* a release loop without the max(0.0, ...)
ReleaseQueuesUnclamped(queue, route, bandwidth) ==
    [n \in DOMAIN queue |-> queue[n] - Occurrences(route, n) * bandwidth]

\* a release loop that steps over the hops and so misses the last satellite
ReleaseQueuesOfHopSources(queue, route, bandwidth) ==
    LET sources == IF route = << >> THEN << >> ELSE SubSeq(route, 1, Len(route) - 1)
    IN  [n \in DOMAIN queue |-> Max2(0, queue[n] - Occurrences(sources, n) * bandwidth)]

\* deallocate, the loop over the satellites
RECURSIVE ReleaseQueues(_, _, _)
ReleaseQueues(queue, route, bandwidth) ==
    IF route = << >> THEN queue
    ELSE ReleaseQueues([queue EXCEPT ![Head(route)] = Max2(0, @ - bandwidth)],
                       Tail(route), bandwidth)

(***************************************************************************)
(* Admission controllers.  Confidence is kept in millionths, positioning   *)
(* quality in ten-thousandths, satellite load in units of 1 / LoadOne,     *)
(* link quality in units of 1 / QualityOne.                                *)
(***************************************************************************)
ConfOne == 1000000
QOne == 10000
max_queue_length == 100
LoadOne == max_queue_length * 10 * Scale
QualityOne == 1200

min_signal_strength_dbm == 0 - 120
min_bandwidth_threshold_mbps == 1
total_capacity == 100
min_visible_satellites == 4
max_gdop_threshold == 10

Reject(why) == [decision |-> "reject", confidence |-> ConfOne, allocated_bandwidth |-> 0,
                allocated_satellite |-> NoSatellite, reason |-> why]

RECURSIVE SumOver(_, _)
SumOver(S, f) == IF S = {} THEN 0
                 ELSE LET x == CHOOSE y \in S : TRUE
                      IN  f[x] + SumOver(S \ {x}, f)

\* _calculate_satellite_load: min(1.0, queue_length / 100.0)
CalculateSatelliteLoad(satellite_id, queue) ==
    Min2(LoadOne, IF satellite_id \in DOMAIN queue THEN queue[satellite_id] ELSE 0)

\* a link quality that forgets the "1.0 -" and answers the mean utilization
CalculateLinkQualityAsUtilization(satellite_id, capacity, util) ==
    LET links == {l \in DOMAIN util : l[1] = satellite_id \/ l[2] = satellite_id}
        pct == [l \in links |-> (util[l] * 100) \div capacity[l]]
        link_count == Cardinality(links)
    IN  IF link_count = 0 THEN QualityOne
        ELSE ((QualityOne \div 100) * SumOver(links, pct)) \div link_count

\* _calculate_link_quality: 1 - the mean utilization of the links at the satellite
CalculateLinkQuality(satellite_id, capacity, util) ==
    LET links == {l \in DOMAIN util : l[1] = satellite_id \/ l[2] = satellite_id}
        pct == [l \in links |-> (util[l] * 100) \div capacity[l]]
        link_count == Cardinality(links)
    IN  IF link_count = 0 THEN QualityOne
        ELSE (QualityOne * link_count - (QualityOne \div 100) * SumOver(links, pct))
                 \div link_count

\* (1.0 - load) * 0.6 + link_quality * 0.4, times 10 * LoadOne * QualityOne
SatelliteScore(satellite_id, queue, capacity, util) ==
    6 * (LoadOne - CalculateSatelliteLoad(satellite_id, queue)) * QualityOne
        + 4 * CalculateLinkQuality(satellite_id, capacity, util) * LoadOne

\* a basic check that looks at the bandwidth only
CheckBasicQosBandwidthOnly(user_request) ==
    ~(user_request.bandwidth_mbps > Mbps(100))

\* _check_basic_qos
CheckBasicQos(user_request) ==
    /\ ~(user_request.bandwidth_mbps > Mbps(100))
    /\ ~(user_request.max_latency_ms < 10)

\* a candidate search without the test of the satellite's load
FindCandidateSatellitesAnyLoad(pm, queue, capacity, util) ==
    LET passes(sat_id) ==
            /\ pm.given => /\ sat_id \in pm.visible_ids
                           /\ ~(pm.signal_strength_dbm < min_signal_strength_dbm)
            /\ ~(10 * CalculateLinkQuality(sat_id, capacity, util) < 3 * QualityOne)
    IN  SelectSeq([i \in 1 .. Cardinality(SatIds) |-> i - 1], passes)

\* _find_candidate_satellites: the ids that pass, in the order of the list
FindCandidateSatellites(pm, queue, capacity, util) ==
    LET passes(sat_id) ==
            /\ pm.given => /\ sat_id \in pm.visible_ids
                           /\ ~(pm.signal_strength_dbm < min_signal_strength_dbm)
            /\ ~(10 * CalculateSatelliteLoad(sat_id, queue) > 8 * LoadOne)
            /\ ~(10 * CalculateLinkQuality(sat_id, capacity, util) < 3 * QualityOne)
    IN  SelectSeq([i \in 1 .. Cardinality(SatIds) |-> i - 1], passes)

\* _select_best_satellite: the first candidate of the highest score
SelectBestSatellite(candidates, queue, capacity, util) ==
    LET score(i) == SatelliteScore(candidates[i], queue, capacity, util)
        k == CHOOSE i \in 1 .. Len(candidates) :
                 /\ \A j \in 1 .. Len(candidates) : score(j) <= score(i)
                 /\ \A j \in 1 .. (i - 1) : score(j) < score(i)
    IN  candidates[k]

\* _check_bandwidth_availability: max(0.0, 100.0 - queue_length * 0.1)
CheckBandwidthAvailability(satellite_id, queue) ==
    Max2(0, Mbps(total_capacity)
                - (IF satellite_id \in DOMAIN queue THEN queue[satellite_id] ELSE 0) \div 100)

\* an ACCEPT that hands out what the satellite has instead of what was asked
AcceptResultOfAvailable(user_request, best_satellite, available_bandwidth) ==
    [decision |-> "accept", confidence |-> (9 * ConfOne) \div 10,
     allocated_bandwidth |-> available_bandwidth,
     allocated_satellite |-> best_satellite, reason |-> "ok"]

\* make_admission_decision, the result of the branch "available >= requested"
AcceptResult(user_request, best_satellite, available_bandwidth) ==
    [decision |-> "accept", confidence |-> (9 * ConfOne) \div 10,
     allocated_bandwidth |-> user_request.bandwidth_mbps,
     allocated_satellite |-> best_satellite, reason |-> "ok"]

\* ThresholdAdmissionController.make_admission_decision: the result
ThresholdDecision(user_request, pm, queue, capacity, util) ==
    IF ~CheckBasicQos(user_request) THEN Reject("qos")
    ELSE LET candidate_satellites == FindCandidateSatellites(pm, queue, capacity, util)
         IN  IF candidate_satellites = << >> THEN Reject("no_satellite")
             ELSE LET best_satellite ==
                          SelectBestSatellite(candidate_satellites, queue, capacity, util)
                      available_bandwidth == CheckBandwidthAvailability(best_satellite, queue)
                  IN  IF available_bandwidth >= user_request.bandwidth_mbps
                      THEN AcceptResult(user_request, best_satellite, available_bandwidth)
                      ELSE IF available_bandwidth >= Mbps(min_bandwidth_threshold_mbps)
                      THEN [decision |-> "degraded_accept", confidence |-> (7 * ConfOne) \div 10,
                            allocated_bandwidth |-> available_bandwidth,
                            allocated_satellite |-> best_satellite, reason |-> "degraded"]
                      ELSE Reject("insufficient")

\* service_positioning_weights.get(service_type, 0.5), in tenths
ServicePositioningWeight(service_type) ==
    CASE service_type = "navigation" -> 10
      [] service_type = "emergency" -> 9
      [] service_type = "location_based" -> 8
      [] service_type = "voice" -> 3
      [] service_type = "video" -> 2
      [] service_type = "data" -> 1
      [] OTHER -> 5

positioning_weight == 3

Clamp(lo, x, hi) == Max2(lo, Min2(hi, x))

\* _evaluate_positioning_quality: overall_quality; the five scores in percent
EvaluatePositioningQuality(pm) ==
    LET visible_count == Cardinality(pm.visible_ids) + pm.other_visible
        satellite_score == IF visible_count >= min_visible_satellites
                           THEN Min2(100, visible_count * 10) ELSE 0
        gdop_score == IF pm.gdop > 0
                      THEN Max2(0, 100 - ((pm.gdop - 1) * 100) \div max_gdop_threshold)
                      ELSE 0
        accuracy_score == Max2(0, pm.positioning_accuracy)
        signal_score == IF visible_count > 0
                        THEN Clamp(0, ((pm.signal_strength_dbm + 140) * 100) \div 60, 100)
                        ELSE 0
        geometry_score == IF visible_count >= 4
                          THEN Min2(100, (pm.elevation_spread * 100) \div 45) ELSE 0
    IN  satellite_score * 30 + gdop_score * 25 + accuracy_score * 25
            + signal_score * 15 + geometry_score * 5

\* a satellite search that finds nothing and returns None
FindBestSatelliteReturningNone == [raised |-> FALSE, satellite |-> NoSatellite]

\* _find_best_satellite(user_request, None, positioning_metrics): the loop
\* header reads network_state.satellites, and network_state is None
FindBestSatelliteOfNone == [raised |-> TRUE, satellite |-> NoSatellite]

\* a downgrade to REJECT that keeps the allocation of the base result
PositioningRejectKeepingAllocation(base_result) ==
    [base_result EXCEPT !.decision = "reject", !.reason = "positioning"]

\* _adjust_decision_with_positioning, the REJECT of the branch "overall_quality < 0.1"
PositioningReject(base_result) == Reject("positioning")

\* a downgrade that forgets to scale the bandwidth
DegradedServiceBandwidthUnscaled(allocated_bandwidth) == allocated_bandwidth

\* _adjust_decision_with_positioning: base_result.allocated_bandwidth * 0.8
DegradedServiceBandwidth(allocated_bandwidth) == (allocated_bandwidth * 8) \div 10

\* _adjust_decision_with_positioning: the result, or the exception it raises
AdjustDecisionWithPositioning(base_result, user_request, overall_quality) ==
    LET importance == ServicePositioningWeight(user_request.service_type)
        positioning_influence == positioning_weight * importance
        done(r) == [raised |-> FALSE, result |-> r]
    IN  IF base_result.decision = "accept"
        THEN IF 10 * overall_quality < 3 * QOne /\ importance > 7
             THEN IF 10 * overall_quality < QOne
                  THEN done(PositioningReject(base_result))
                  ELSE done([decision |-> "degraded_accept",
                             confidence |-> (base_result.confidence * 8) \div 10,
                             allocated_bandwidth |->
                                 DegradedServiceBandwidth(base_result.allocated_bandwidth),
                             allocated_satellite |-> base_result.allocated_satellite,
                             reason |-> "positioning_degraded"])
             ELSE done([base_result EXCEPT
                           !.confidence = Min2(ConfOne, @ + overall_quality * positioning_influence),
                           !.reason = "positioning_ok"])
        ELSE IF base_result.decision = "reject"
        THEN IF 10 * overall_quality > 8 * QOne /\ importance < 3
             THEN IF FindBestSatelliteOfNone.raised
                  THEN [raised |-> TRUE, result |-> base_result]
                  ELSE done([decision |-> "degraded_accept",
                             confidence |-> (6 * ConfOne) \div 10,
                             allocated_bandwidth |-> user_request.bandwidth_mbps \div 2,
                             allocated_satellite |-> FindBestSatelliteOfNone.satellite,
                             reason |-> "positioning_upgrade"])
             ELSE done(Reject(base_result.reason))
        ELSE IF base_result.decision = "degraded_accept"
        THEN LET bandwidth_factor == IF 10 * overall_quality > 7 * QOne THEN 9
                                     ELSE IF 10 * overall_quality < 3 * QOne THEN 6 ELSE 8
                 confidence_boost == IF 10 * overall_quality > 7 * QOne THEN ConfOne \div 10
                                     ELSE IF 10 * overall_quality < 3 * QOne
                                     THEN 0 - (ConfOne \div 10) ELSE 0
             IN  done([base_result EXCEPT
                          !.allocated_bandwidth = (@ * bandwidth_factor) \div 10,
                          !.confidence = Clamp(ConfOne \div 10, @ + confidence_boost, ConfOne),
                          !.reason = "positioning_rescaled"])
        ELSE done(base_result)

\* a decision that adjusts the base result whether or not metrics were given
PositioningDecisionAlwaysAdjusting(user_request, pm, queue, capacity, util) ==
    LET base_result == ThresholdDecision(user_request, pm, queue, capacity, util)
    IN  [result |-> AdjustDecisionWithPositioning(base_result, user_request,
                                                  EvaluatePositioningQuality(pm)).result,
         base |-> base_result, base_calls |-> 1, adjusted |-> TRUE]

\* PositioningAwareAdmissionController.make_admission_decision: the result
\* returned, the base result, and how often the base controller was called
PositioningDecision(user_request, pm, queue, capacity, util) ==
    LET base_result == ThresholdDecision(user_request, pm, queue, capacity, util)
    IN  IF ~pm.given
        THEN [result |-> base_result, base |-> base_result, base_calls |-> 1, adjusted |-> FALSE]
        ELSE LET adj == AdjustDecisionWithPositioning(base_result, user_request,
                                                      EvaluatePositioningQuality(pm))
             IN  IF adj.raised
                 THEN [result |-> ThresholdDecision(user_request, pm, queue, capacity, util),
                       base |-> base_result, base_calls |-> 2, adjusted |-> FALSE]
                 ELSE [result |-> adj.result, base |-> base_result, base_calls |-> 1,
                       adjusted |-> TRUE]

\* update_statistics
UpdateStatistics(stats, result) ==
    LET s1 == [stats EXCEPT !.total_requests = @ + 1]
    IN  CASE result.decision = "accept" -> [s1 EXCEPT !.accepted_requests = @ + 1]
          [] result.decision = "reject" -> [s1 EXCEPT !.rejected_requests = @ + 1]
          [] result.decision = "degraded_accept" -> [s1 EXCEPT !.degraded_requests = @ + 1]
          [] result.decision = "delayed_accept" -> [s1 EXCEPT !.delayed_requests = @ + 1]
          [] result.decision = "partial_accept" -> [s1 EXCEPT !.partial_requests = @ + 1]
          [] OTHER -> s1

FlowIds == {"f1", "f2", "f3"}
Routes == {<< 0, 1 >>, << 0, 1, 2 >>, << 0, 2 >>}
TargetValues == {Mbps(10), Mbps(20), Mbps(30), Mbps(60)}
CapacityMaps == {[l \in {<< 0, 1 >>, << 1, 0 >>, << 1, 2 >>, << 2, 1 >>} |-> Mbps(100)]}

Flow(id, class, req) == [flow_id |-> id, qos_class |-> class, bandwidth_requirement |-> Mbps(req)]
FlowRequests == {Flow("f1", "best_effort", 20), Flow("f1", "best_effort", 90),
                 Flow("f1", "critical", 60),
                 Flow("f2", "assured", 60), Flow("f2", "premium", 30),
                 Flow("f3", "critical", 30)}

\* the NetworkState maps a call can change, as one value
NsMaps == [link_utilization |-> link_utilization, queue_lengths |-> queue_lengths,
           active_flows |-> active_flows]

\* what ctrl_call keeps of a call that is not a process_admission_decision
NoAdmission == [decision |-> None, allocated_bandwidth |-> 0, bandwidth_requirement |-> 0]

NoCall == [op |-> "init", route_found |-> FALSE, bandwidth |-> 0, ret |-> NoResult,
           was_committed |-> FALSE, raised |-> FALSE]

RouterFlowIds == {<< "u1", 0 >>, << "u2", 0 >>}
NoReturn == [found |-> FALSE, route |-> << >>, time |-> 0]

\* what alloc_last keeps of a call that is not an allocate
NoAllocCall == [qos_class |-> None, bandwidth_requirement |-> 0, route |-> << >>,
                target_bandwidth |-> 0, available |-> 0, reclaimed |-> 0]

\* BandwidthAllocator.__init__
AllocFresh ==
    /\ active_allocations = << >>
    /\ link_allocations = [l \in LinkKeys |-> 0]
    /\ total_allocated_bandwidth = 0
    /\ alloc_ops = 0
    /\ alloc_last = [op |-> "init", flow_id |-> None, ret |-> 0, call |-> NoAllocCall]
    /\ committed_bw = [f \in FlowIds |-> 0]

\* MCTSRouter.__init__
RouterFresh ==
    /\ route_history = << >>
    /\ last_reroute_time = << >>
    /\ now_ms = 0
    /\ rt_ops = 0
    /\ rt_last = [op |-> "init", flow_id |-> << >>, time |-> 0, ret |-> NoRoute,
                  prev |-> NoReturn]
    /\ rt_returned = [f \in RouterFlowIds |-> NoReturn]

\* DSROQController.__init__ and LyapunovScheduler.__init__
CtrlFresh ==
    /\ queue_states = [n \in SatIds |-> 0]
    /\ total_requests = 0
    /\ successful_allocations = 0
    /\ failed_allocations = 0
    /\ ctrl_ops = 0
    /\ ctrl_last = NoCall
    /\ ctrl_prev = NoCall
    /\ ns_before = NsMaps
    /\ ns_before2 = NsMaps
    /\ ctrl_call = NoAdmission
    /\ committed_results = << >>
    /\ returned_results = {}

NoStats == [total_requests |-> 0, accepted_requests |-> 0, rejected_requests |-> 0,
            degraded_requests |-> 0, delayed_requests |-> 0, partial_requests |-> 0]

NoMetrics == [given |-> FALSE, visible_ids |-> {}, other_visible |-> 0,
              signal_strength_dbm |-> 0 - 140, gdop |-> 0, positioning_accuracy |-> 0,
              elevation_spread |-> 0]

\* AdmissionController.__init__
AdmFresh ==
    /\ thr_stats = NoStats
    /\ pos_stats = NoStats
    /\ base_stats = NoStats
    /\ adm_ops = 0
    /\ adm_last = [controller |-> "init",
                   user_request |-> [service_type |-> "data", bandwidth_mbps |-> 0,
                                     max_latency_ms |-> 0],
                   pm |-> NoMetrics, result |-> Reject("init"), base |-> Reject("init"),
                   adjusted |-> FALSE]

\* SimulationEngine.__init__ and EventScheduler.__init__
\* no request is between its read and its commit; the load the links start
\* with counts as committed
ConcFresh ==
    /\ in_flight = << >>
    /\ overlapped = FALSE
    /\ link_committed = link_utilization

\* what ev_last keeps before the first call
NoEventCall == [op |-> "init", current_time |-> 0, events |-> << >>, before |-> << >>]

\* EventScheduler.__init__ (the event_queue is with the engine's variables)
EvFresh ==
    /\ total_events = 0
    /\ processed_events = 0
    /\ ev_ops = 0
    /\ ev_last = NoEventCall
    /\ ev_scheduled = {}
    /\ ev_delivered = << >>
    /\ ev_cancelled = {}

EngFresh ==
    /\ eng_time = 0
    /\ active_users = << >>
    /\ event_queue = << >>
    /\ eng_pc = "events"

\* a NetworkState with every satellite active and nothing in use
NsQuiet ==
    /\ link_capacity \in CapacityMaps
    /\ link_utilization = [l \in DOMAIN link_capacity |-> 0]
    /\ queue_lengths = [n \in SatIds |-> 0]
    /\ active_flows = << >>
    /\ sat_active = SatIds

AllocInit == NsQuiet /\ AllocFresh /\ RouterFresh /\ CtrlFresh /\ AdmFresh /\ EngFresh
    /\ EvFresh /\ ConcFresh

\* what alloc_last keeps of an allocate call: its arguments, the bottleneck
\* headroom the call found on the route, and what _reclaim_bandwidth returned
AllocCall(flow, route, target_bandwidth, reclaimed) ==
    [qos_class |-> flow.qos_class, bandwidth_requirement |-> flow.bandwidth_requirement,
     route |-> route, target_bandwidth |-> target_bandwidth,
     available |-> IF Len(route) < 2 THEN 0
                   ELSE BottleneckAvailable(route, link_capacity, link_allocations),
     reclaimed |-> reclaimed]

\* allocate(flow_request, route, target_bandwidth, network_state)
Allocate(flow, route, target_bandwidth) ==
    /\ alloc_ops < MaxAllocOps
    /\ alloc_ops' = alloc_ops + 1
    /\ UNCHANGED << nsVars, routerVars, ctrlVars, admVars, engVars, evVars, concVars >>
    /\ IF ~IsPathFeasible(route, target_bandwidth, link_capacity, link_allocations)
       THEN /\ UNCHANGED << active_allocations, link_allocations,
                            total_allocated_bandwidth, committed_bw >>
            /\ alloc_last' = [op |-> "allocate", flow_id |-> flow.flow_id, ret |-> 0,
                              call |-> AllocCall(flow, route, target_bandwidth, 0)]
       ELSE LET feasible_bandwidth == CalculateFeasibleBandwidth(
                                          route, target_bandwidth, link_capacity, link_allocations)
                pol == ApplyQosPolicy(active_allocations, flow, feasible_bandwidth)
                final_bandwidth == pol.bandwidth
            IN  /\ IF final_bandwidth > 0
                   THEN /\ link_allocations' = AddOnRoute(link_allocations, route, final_bandwidth)
                        /\ active_allocations' =
                               RecordAllocation(pol.allocs, flow, route, final_bandwidth)
                        /\ total_allocated_bandwidth' =
                               total_allocated_bandwidth + final_bandwidth
                        /\ committed_bw' = [committed_bw EXCEPT ![flow.flow_id] = final_bandwidth]
                   ELSE /\ active_allocations' = pol.allocs
                        /\ UNCHANGED << link_allocations, total_allocated_bandwidth,
                                        committed_bw >>
                /\ alloc_last' = [op |-> "allocate", flow_id |-> flow.flow_id,
                                  ret |-> final_bandwidth,
                                  call |-> AllocCall(flow, route, target_bandwidth,
                                                     pol.reclaimed)]

\* deallocate(flow_id)
Deallocate(flow_id) ==
    /\ alloc_ops < MaxAllocOps
    /\ alloc_ops' = alloc_ops + 1
    /\ UNCHANGED << committed_bw, nsVars, routerVars, ctrlVars, admVars, engVars, evVars, concVars >>
    /\ LET i == IndexOfFlow(active_allocations, flow_id)
       IN  IF i = 0
           THEN /\ UNCHANGED << active_allocations, link_allocations,
                                total_allocated_bandwidth >>
                /\ alloc_last' = [op |-> "deallocate", flow_id |-> flow_id, ret |-> 0,
                                  call |-> NoAllocCall]
           ELSE LET info == active_allocations[i]
                IN  /\ link_allocations' =
                           ReleaseHops(link_allocations, Hops(info.route), info.bandwidth)
                    /\ active_allocations' =
                           SubSeq(active_allocations, 1, i - 1)
                               \o SubSeq(active_allocations, i + 1, Len(active_allocations))
                    /\ total_allocated_bandwidth' = total_allocated_bandwidth - info.bandwidth
                    /\ alloc_last' = [op |-> "deallocate", flow_id |-> flow_id, ret |-> 1,
                                      call |-> NoAllocCall]

AllocNext ==
    \/ \E flow \in FlowRequests, route \in Routes, target \in TargetValues :
           Allocate(flow, route, target)
    \/ \E flow_id \in FlowIds : Deallocate(flow_id)

SpecAlloc == AllocInit /\ [][AllocNext]_vars

(***************************************************************************)
(* MCTSRouter.find_route, called over time on the NetworkState of the day  *)
(***************************************************************************)
MaxRouterOps == 4
ClockStepMs == 2000

RouterFlow(id, src_lat, dst_lat) ==
    [flow_id |-> id, source |-> << src_lat, 0 >>, destination |-> << dst_lat, 0 >>,
     qos_class |-> "best_effort", bandwidth_requirement |-> Mbps(10)]
RouterFlows == {RouterFlow(<< "u1", 0 >>, 0, 0), RouterFlow(<< "u2", 0 >>, 0, 20)}

UtilMaps == {[l \in Topology |-> 0],
             [l \in Topology |-> IF l[1] = 0 THEN Mbps(100) ELSE Mbps(50)]}

RouterInit ==
    /\ link_capacity \in CapacityMaps
    /\ link_utilization \in UtilMaps
    /\ queue_lengths = [n \in SatIds |-> 0]
    /\ active_flows = << >>
    /\ sat_active = SatIds
    /\ AllocFresh /\ RouterFresh /\ CtrlFresh /\ AdmFresh /\ EngFresh
    /\ EvFresh /\ ConcFresh

\* find_route(flow_request, network_state)
RouterFindRoute(flow) ==
    /\ rt_ops < MaxRouterOps
    /\ rt_ops' = rt_ops + 1
    /\ LET fr == FindRoute(flow, now_ms, sat_active, link_capacity, link_utilization,
                           route_history, last_reroute_time)
       IN  /\ route_history' = fr.route_history
           /\ last_reroute_time' = fr.last_reroute_time
           /\ rt_last' = [op |-> "find_route", flow_id |-> flow.flow_id, time |-> now_ms,
                          ret |-> fr.ret, prev |-> rt_returned[flow.flow_id]]
           /\ rt_returned' = IF fr.ret.found
                             THEN [rt_returned EXCEPT ![flow.flow_id] =
                                      [found |-> TRUE, route |-> fr.ret.route, time |-> now_ms]]
                             ELSE rt_returned
    /\ UNCHANGED << now_ms, allocVars, nsVars, ctrlVars, admVars, engVars, evVars, concVars >>

\* time.time() moves on between two calls
Tick ==
    /\ rt_ops < MaxRouterOps
    /\ rt_ops' = rt_ops + 1
    /\ now_ms' = now_ms + ClockStepMs
    /\ UNCHANGED << route_history, last_reroute_time, rt_last, rt_returned,
                    allocVars, nsVars, ctrlVars, admVars, engVars, evVars, concVars >>

\* the caller's next NetworkState: other satellites active, other utilization
RefreshNetworkState ==
    /\ rt_ops < MaxRouterOps
    /\ rt_ops' = rt_ops + 1
    /\ sat_active' \in SUBSET SatIds
    /\ link_utilization' \in UtilMaps
    /\ << sat_active', link_utilization' >> # << sat_active, link_utilization >>
    /\ UNCHANGED << link_capacity, queue_lengths, active_flows, route_history,
                    last_reroute_time, now_ms, rt_last, rt_returned, allocVars, ctrlVars,
                    admVars, engVars, evVars, concVars >>

RouterNext ==
    \/ \E flow \in RouterFlows : RouterFindRoute(flow)
    \/ Tick
    \/ RefreshNetworkState

SpecRouter == RouterInit /\ [][RouterNext]_vars

(***************************************************************************)
(* DSROQController on a NetworkState                                       *)
(***************************************************************************)
MaxCtrlOps == 3

UserRequest(id, lat, mbps) ==
    [user_id |-> id, user_lat |-> lat, user_lon |-> 0, qos_class |-> "best_effort",
     bandwidth_mbps |-> Mbps(mbps)]
UserRequests == {UserRequest("u1", 0, 10), UserRequest("u1", 0, 100),
                 UserRequest("u2", 12, 0), UserRequest("u2", 12, 80),
                 UserRequest("u3", NoCoordinate, 10)}

CtrlRoutes == {<< 0, 1 >>, << 0, 1, 2 >>, << 1, 2 >>}

\* an AllocationResult the controller never returned
StaleResults == {[ok |-> TRUE, flow_id |-> << "u9", 0 >>, route |-> << 0, 1 >>,
                  allocated_bandwidth |-> Mbps(10)]}

CtrlUtilMaps == {[l \in Topology |-> 0],
                 [l \in Topology |-> IF l = << 0, 1 >> THEN Mbps(50)
                                     ELSE IF l = << 1, 2 >> THEN Mbps(100) ELSE 0]}

CtrlInit ==
    /\ link_capacity \in CapacityMaps
    /\ link_utilization \in CtrlUtilMaps
    /\ queue_lengths \in {[n \in SatIds |-> 0], [n \in SatIds |-> IF n = 1 THEN Mbps(5) ELSE 0]}
    /\ active_flows = << >>
    /\ sat_active \in {SatIds, {}}
    /\ AllocFresh /\ RouterFresh /\ CtrlFresh /\ AdmFresh /\ EngFresh
    /\ EvFresh /\ ConcFresh

RemoveFirst(seq, x) ==
    IF \E i \in 1 .. Len(seq) : seq[i] = x
    THEN LET i == CHOOSE k \in 1 .. Len(seq) :
                      seq[k] = x /\ \A j \in 1 .. (k - 1) : seq[j] # x
         IN  SubSeq(seq, 1, i - 1) \o SubSeq(seq, i + 1, Len(seq))
    ELSE seq

IsIn(seq, x) == \E i \in 1 .. Len(seq) : seq[i] = x

CtrlHistoryOf(admission) ==
    /\ ctrl_ops' = ctrl_ops + 1
    /\ ctrl_prev' = ctrl_last
    /\ ns_before' = NsMaps
    /\ ns_before2' = ns_before
    /\ ctrl_call' = admission

CtrlHistory == CtrlHistoryOf(NoAdmission)

\* process_user_request from step 3 on: allocate_bandwidth, the result,
\* _update_network_state, the statistics
AllocateAndCommit(flow, route) ==
    LET ab == AllocateBandwidth(flow, route, link_capacity, link_utilization, queue_states)
        allocated_bandwidth == ab.bandwidth
        allocation_result == [ok |-> TRUE, flow_id |-> flow.flow_id, route |-> route,
                              allocated_bandwidth |-> allocated_bandwidth]
    IN  /\ queue_states' = ab.queue_states
        /\ IF AllocationFailed(allocated_bandwidth)
           THEN /\ failed_allocations' = failed_allocations + 1
                /\ ctrl_last' = [op |-> "process_user_request", route_found |-> TRUE,
                                 bandwidth |-> allocated_bandwidth, ret |-> NoResult,
                                 was_committed |-> FALSE, raised |-> FALSE]
                /\ UNCHANGED << link_utilization, queue_lengths, successful_allocations,
                                committed_results, returned_results >>
           ELSE /\ link_utilization' = CommitLinks(link_utilization, link_capacity,
                                                   Hops(route), allocated_bandwidth)
                /\ queue_lengths' = CommitQueues(queue_lengths, route, allocated_bandwidth)
                /\ successful_allocations' = successful_allocations + 1
                /\ ctrl_last' = [op |-> "process_user_request", route_found |-> TRUE,
                                 bandwidth |-> allocated_bandwidth, ret |-> allocation_result,
                                 was_committed |-> FALSE, raised |-> FALSE]
                /\ committed_results' = Append(committed_results, allocation_result)
                /\ UNCHANGED failed_allocations
                /\ returned_results' = returned_results \cup {allocation_result}

\* process_user_request, the handler of an exception raised before step 3:
\* the failure is counted, None is returned, nothing else has changed
RequestRaised ==
    /\ failed_allocations' = FailedAfterException(failed_allocations)
    /\ ctrl_last' = [op |-> "process_user_request", route_found |-> FALSE,
                     bandwidth |-> 0, ret |-> NoResult, was_committed |-> FALSE,
                     raised |-> TRUE]
    /\ UNCHANGED << link_utilization, queue_lengths, queue_states, successful_allocations,
                    committed_results, returned_results >>

\* process_user_request(user_request, network_state)
ProcessUserRequest(user_request) ==
    /\ ctrl_ops < MaxCtrlOps
    /\ CtrlHistory
    /\ total_requests' = total_requests + 1
    /\ IF ConvertRaises(user_request, sat_active)
       THEN RequestRaised /\ UNCHANGED << route_history, last_reroute_time >>
       ELSE
       LET flow_request == ConvertToFlowRequest(user_request, sat_active, now_ms)
           fr == FindRoute(flow_request, now_ms, sat_active, link_capacity,
                           link_utilization, route_history, last_reroute_time)
       IN  /\ route_history' = fr.route_history
           /\ last_reroute_time' = fr.last_reroute_time
           /\ IF ~fr.ret.found
              THEN /\ failed_allocations' = failed_allocations + 1
                   /\ ctrl_last' = [op |-> "process_user_request", route_found |-> FALSE,
                                    bandwidth |-> 0, ret |-> NoResult,
                                    was_committed |-> FALSE, raised |-> FALSE]
                   /\ UNCHANGED << link_utilization, queue_lengths, queue_states,
                                   successful_allocations, committed_results,
                                   returned_results >>
              ELSE AllocateAndCommit(flow_request, fr.ret.route)
    /\ UNCHANGED << link_capacity, active_flows, sat_active, now_ms, rt_ops, rt_last,
                    rt_returned, allocVars, admVars, engVars, evVars, concVars >>

\* process_user_request from step 3 on, for a request whose routing stage
\* has produced a loop-free route of two or more satellites.  FindRoute
\* produces none (see EvaluatePath), so ProcessUserRequest alone never
\* reaches the commit; this action is what exercises it.
ProcessUserRequestOnRoute(user_request, route) ==
    /\ ctrl_ops < MaxCtrlOps
    /\ CtrlHistory
    /\ total_requests' = total_requests + 1
    /\ IF ConvertRaises(user_request, sat_active)
       THEN RequestRaised
       ELSE AllocateAndCommit(ConvertToFlowRequest(user_request, sat_active, now_ms), route)
    /\ UNCHANGED << link_capacity, active_flows, sat_active, routerVars, allocVars, admVars, engVars, evVars, concVars >>

\* the decisions process_admission_decision is handed: an AdmissionResult's
\* decision and allocated_bandwidth (0 when the result sets none)
AdmissionDecisions == {"accept", "reject", "degraded_accept", "delayed_accept",
                       "partial_accept"}
AdmissionResults ==
    {[decision |-> d, allocated_bandwidth |-> 0] : d \in AdmissionDecisions}
        \cup {[decision |-> d, allocated_bandwidth |-> Mbps(5)] :
                  d \in {"degraded_accept", "partial_accept"}}

\* the FlowRequests process_admission_decision is handed
AdmittedFlows == {[flow_id |-> "f1", source |-> << 0, 0 >>, qos_class |-> q,
                   bandwidth_requirement |-> Mbps(b)] :
                      q \in {"premium"}, b \in {10, 100}}

\* process_admission_decision: "if decision_type in [ACCEPT, DEGRADED_ACCEPT,
\* PARTIAL_ACCEPT]"
AllocatingDecisions == {"accept", "degraded_accept", "partial_accept"}

\* _adjust_flow_for_decision: the bandwidth requirement of the adjusted flow
AdjustFlowForDecision(flow_request, decision) ==
    IF decision.decision = "degraded_accept"
    THEN [flow_request EXCEPT !.bandwidth_requirement =
              IF decision.allocated_bandwidth # 0 THEN decision.allocated_bandwidth
              ELSE (@ * 7) \div 10]
    ELSE IF decision.decision = "partial_accept"
    THEN [flow_request EXCEPT !.bandwidth_requirement =
              IF decision.allocated_bandwidth # 0 THEN decision.allocated_bandwidth
              ELSE @ \div 2]
    ELSE flow_request

\* _convert_to_user_request: user_id is the flow_id, the position is the
\* flow's source, qos_class is left at the dataclass default
ConvertToUserRequest(flow_request) ==
    [user_id |-> flow_request.flow_id, user_lat |-> flow_request.source[1],
     user_lon |-> flow_request.source[2], qos_class |-> "best_effort",
     bandwidth_mbps |-> flow_request.bandwidth_requirement]

\* process_admission_decision(decision, flow_request, network_state), with
\* the routing stage producing the given route (see ProcessUserRequestOnRoute)
ProcessAdmissionDecision(decision, flow_request, route) ==
    LET adjusted_flow == AdjustFlowForDecision(flow_request, decision)
        user_request == ConvertToUserRequest(adjusted_flow)
    IN  /\ ctrl_ops < MaxCtrlOps
        /\ CtrlHistoryOf([decision |-> decision.decision,
                          allocated_bandwidth |-> decision.allocated_bandwidth,
                          bandwidth_requirement |-> adjusted_flow.bandwidth_requirement])
        /\ IF decision.decision \in AllocatingDecisions
           THEN /\ total_requests' = total_requests + 1
                /\ IF ConvertRaises(user_request, sat_active)
                   THEN RequestRaised
                   ELSE AllocateAndCommit(
                            ConvertToFlowRequest(user_request, sat_active, now_ms), route)
           ELSE /\ ctrl_last' = [NoCall EXCEPT !.op = "process_admission_decision"]
                /\ UNCHANGED << link_utilization, queue_lengths, queue_states,
                                total_requests, successful_allocations,
                                failed_allocations, committed_results, returned_results >>
        /\ UNCHANGED << link_capacity, active_flows, sat_active, routerVars, allocVars,
                        admVars, engVars, evVars, concVars >>

\* deallocate(allocation_result, network_state)
CtrlDeallocate(allocation_result) ==
    /\ ctrl_ops < MaxCtrlOps
    /\ CtrlHistory
    /\ link_utilization' = ReleaseLinks(link_utilization, link_capacity,
                                        Hops(allocation_result.route),
                                        allocation_result.allocated_bandwidth)
    /\ queue_lengths' = ReleaseQueues(queue_lengths, allocation_result.route,
                                      allocation_result.allocated_bandwidth)
    /\ ctrl_last' = [op |-> "deallocate", route_found |-> FALSE, bandwidth |-> 0,
                     ret |-> allocation_result,
                     was_committed |-> IsIn(committed_results, allocation_result),
                     raised |-> FALSE]
    /\ committed_results' = RemoveFirst(committed_results, allocation_result)
    /\ UNCHANGED << link_capacity, active_flows, sat_active, queue_states, total_requests,
                    successful_allocations, failed_allocations, returned_results,
                    routerVars, allocVars, admVars, engVars, evVars, concVars >>

\* update_queue_states(network_state): the scheduler's queue states become a
\* copy of the NetworkState's queue lengths
CtrlUpdateQueueStates ==
    /\ ctrl_ops < MaxCtrlOps
    /\ CtrlHistory
    /\ queue_states' = [n \in SatIds |-> queue_lengths[n]]
    /\ ctrl_last' = [NoCall EXCEPT !.op = "update_queue_states"]
    /\ UNCHANGED << nsVars, total_requests, successful_allocations, failed_allocations,
                    committed_results, returned_results, routerVars, allocVars, admVars, engVars, evVars, concVars >>

CtrlNext ==
    \/ CtrlUpdateQueueStates
    \/ \E user_request \in UserRequests : ProcessUserRequest(user_request)
    \/ \E user_request \in UserRequests, route \in CtrlRoutes :
           ProcessUserRequestOnRoute(user_request, route)
    \/ \E allocation_result \in returned_results \cup StaleResults :
           CtrlDeallocate(allocation_result)

SpecCtrl == CtrlInit /\ [][CtrlNext]_vars

\* the controller driven by admission decisions: admitted flows are handed to
\* process_admission_decision, results are released, queue states refreshed
DecisionNext ==
    \/ \E decision \in AdmissionResults, flow_request \in AdmittedFlows,
              route \in CtrlRoutes :
           ProcessAdmissionDecision(decision, flow_request, route)
    \/ \E allocation_result \in returned_results : CtrlDeallocate(allocation_result)
    \/ CtrlUpdateQueueStates

\* a fresh controller over a NetworkState with all satellites active, empty
\* queues and links that are idle or partly used
DecisionInit ==
    /\ link_capacity \in CapacityMaps
    /\ link_utilization \in CtrlUtilMaps
    /\ queue_lengths = [n \in SatIds |-> 0]
    /\ active_flows = << >>
    /\ sat_active = SatIds
    /\ AllocFresh /\ RouterFresh /\ CtrlFresh /\ AdmFresh /\ EngFresh
    /\ EvFresh /\ ConcFresh

SpecDecision == DecisionInit /\ [][DecisionNext]_vars

(***************************************************************************)
(* LyapunovScheduler.schedule_flow, called flow after flow                 *)
(***************************************************************************)
MaxSchedOps == 12

SchedFlow(mbps) == [flow_id |-> << "s", mbps >>, qos_class |-> "best_effort",
                    bandwidth_requirement |-> Mbps(mbps)]
SchedFlows == {SchedFlow(50), SchedFlow(100)}
SchedRoutes == {<< 0, 1 >>, << 0, 1, 2 >>}

SchedInit ==
    /\ link_capacity \in CapacityMaps
    /\ link_utilization = [l \in DOMAIN link_capacity |-> 0]
    /\ queue_lengths \in {[n \in SatIds |-> 0], [n \in SatIds |-> 5 * 10 * Scale]}
    /\ active_flows = << >>
    /\ sat_active = SatIds
    /\ AllocFresh /\ RouterFresh /\ CtrlFresh /\ AdmFresh /\ EngFresh
    /\ EvFresh /\ ConcFresh

\* schedule_flow(flow_request, route)
SchedScheduleFlow(flow, route) ==
    /\ ctrl_ops < MaxSchedOps
    /\ CtrlHistory
    /\ LET decision == ScheduleFlow(queue_states, flow, route)
       IN  /\ queue_states' = decision.queue_states
           /\ ctrl_last' = [NoCall EXCEPT !.op = "schedule_flow",
                                          !.bandwidth = decision.rate_limit_mbps]
    /\ UNCHANGED << nsVars, total_requests, successful_allocations, failed_allocations,
                    committed_results, returned_results, routerVars, allocVars, admVars, engVars, evVars, concVars >>

SchedNext ==
    \/ \E flow \in SchedFlows, route \in SchedRoutes : SchedScheduleFlow(flow, route)
    \/ CtrlUpdateQueueStates

SpecSched == SchedInit /\ [][SchedNext]_vars

(***************************************************************************)
(* The admission controllers deciding on requests                          *)
(***************************************************************************)
MaxAdmOps == 2

AdmRequest(service, mbps, latency) ==
    [service_type |-> service, bandwidth_mbps |-> Mbps(mbps), max_latency_ms |-> latency]
AdmRequests == {AdmRequest("navigation", 10, 50), AdmRequest("data", 10, 50),
                AdmRequest("navigation", 100, 50), AdmRequest("data", 100, 50),
                AdmRequest("data", 120, 50), AdmRequest("navigation", 10, 5)}

Metrics(ids, others, dbm, g, accuracy, spread) ==
    [given |-> TRUE, visible_ids |-> ids, other_visible |-> others,
     signal_strength_dbm |-> dbm, gdop |-> g, positioning_accuracy |-> accuracy,
     elevation_spread |-> spread]
PositioningInputs == {NoMetrics,
                      Metrics(SatIds, 7, 0 - 80, 1, 100, 45),
                      Metrics({0, 1}, 0, 0 - 110, 20, 0, 0),
                      Metrics(SatIds, 1, 0 - 110, 11, 0, 0),
                      Metrics(SatIds, 7, 0 - 110, 6, 0, 0),
                      Metrics(SatIds, 7, 0 - 140, 1, 100, 45)}

\* queue lengths 0, 50, 95 and 970 everywhere, and 80 / 0 / 95
AdmQueueMaps == {[n \in SatIds |-> 0], [n \in SatIds |-> 50 * 10 * Scale],
                 [n \in SatIds |-> 95 * 10 * Scale], [n \in SatIds |-> 970 * 10 * Scale],
                 [n \in SatIds |-> IF n = 0 THEN 80 * 10 * Scale
                                   ELSE IF n = 1 THEN 0 ELSE 95 * 10 * Scale]}

AdmInit ==
    /\ link_capacity \in CapacityMaps
    /\ link_utilization \in UtilMaps
    /\ queue_lengths \in AdmQueueMaps
    /\ active_flows = << >>
    /\ sat_active = SatIds
    /\ AllocFresh /\ RouterFresh /\ CtrlFresh /\ AdmFresh /\ EngFresh
    /\ EvFresh /\ ConcFresh

\* ThresholdAdmissionController.make_admission_decision
ThresholdDecide(user_request, pm) ==
    /\ adm_ops < MaxAdmOps
    /\ adm_ops' = adm_ops + 1
    /\ LET result == ThresholdDecision(user_request, pm, queue_lengths,
                                       link_capacity, link_utilization)
       IN  /\ thr_stats' = UpdateStatistics(thr_stats, result)
           /\ adm_last' = [controller |-> "threshold", user_request |-> user_request,
                           pm |-> pm, result |-> result, base |-> result,
                           adjusted |-> FALSE]
    /\ UNCHANGED << pos_stats, base_stats, allocVars, nsVars, routerVars, ctrlVars, engVars, evVars, concVars >>

RECURSIVE Times(_, _, _)
Times(n, stats, result) ==
    IF n = 0 THEN stats ELSE Times(n - 1, UpdateStatistics(stats, result), result)

\* PositioningAwareAdmissionController.make_admission_decision
PositioningDecide(user_request, pm) ==
    /\ adm_ops < MaxAdmOps
    /\ adm_ops' = adm_ops + 1
    /\ LET d == PositioningDecision(user_request, pm, queue_lengths,
                                    link_capacity, link_utilization)
       IN  /\ base_stats' = Times(d.base_calls, base_stats, d.base)
           /\ pos_stats' = UpdateStatistics(pos_stats, d.result)
           /\ adm_last' = [controller |-> "positioning_aware", user_request |-> user_request,
                           pm |-> pm, result |-> d.result, base |-> d.base,
                           adjusted |-> d.adjusted]
    /\ UNCHANGED << thr_stats, allocVars, nsVars, routerVars, ctrlVars, engVars, evVars, concVars >>

AdmNext ==
    \/ \E user_request \in AdmRequests, pm \in PositioningInputs :
           ThresholdDecide(user_request, pm)
    \/ \E user_request \in AdmRequests, pm \in PositioningInputs :
           PositioningDecide(user_request, pm)

SpecAdm == AdmInit /\ [][AdmNext]_vars

(***************************************************************************)
(* SimulationEngine: the sessions of admitted users                        *)
(***************************************************************************)
MaxDuration == 4

time_step == 1

EngUserRequest(id, mbps, duration) ==
    [user_id |-> id, user_lat |-> 0, user_lon |-> 0, qos_class |-> "best_effort",
     service_type |-> "data", bandwidth_mbps |-> Mbps(mbps), max_latency_ms |-> 50,
     duration_seconds |-> duration]
EngUserRequests == {EngUserRequest(id, 10, d) : id \in {"u1", "u2"}, d \in {0, 1, 2}}

\* what _process_user_request hands to the admission controller: None, or
\* a dict whose 'visible_satellites' is the empty list
EngPositioningInputs == {NoMetrics, Metrics({}, 0, 0 - 140, 1, 100, 0)}

EngRoutes == {<< 0, 1 >>}

\* HypatiaAdapter.get_network_state: utilization 0.1 on every link, empty queues
AdapterUtilization(capacity) == [l \in DOMAIN capacity |-> capacity[l] \div 10]

EngInit ==
    /\ link_capacity \in CapacityMaps
    /\ link_utilization = AdapterUtilization(link_capacity)
    /\ queue_lengths = [n \in SatIds |-> 0]
    /\ active_flows = << >>
    /\ sat_active = SatIds
    /\ AllocFresh /\ RouterFresh /\ CtrlFresh /\ AdmFresh /\ EngFresh
    /\ EvFresh /\ ConcFresh

\* the position of user_id's record in active_users, 0 when it has none
UserIndex(users, user_id) ==
    IF \E i \in 1 .. Len(users) : users[i].user_id = user_id
    THEN CHOOSE i \in 1 .. Len(users) : users[i].user_id = user_id
    ELSE 0

\* self.active_users[user_id] = {...}
PutUser(users, record) ==
    LET i == UserIndex(users, record.user_id)
    IN  IF i = 0 THEN Append(users, record) ELSE [users EXCEPT ![i] = record]

\* del self.active_users[user_id]
DelUser(users, user_id) ==
    LET i == UserIndex(users, user_id)
    IN  SubSeq(users, 1, i - 1) \o SubSeq(users, i + 1, Len(users))

\* _handle_event for a user_session_end of user_id
HandleSessionEnd(user_id) ==
    LET i == UserIndex(active_users, user_id)
    IN  IF i # 0
        THEN LET allocation_result == active_users[i].allocation_result
             IN  /\ CtrlHistory
                 /\ link_utilization' = ReleaseLinks(link_utilization, link_capacity,
                                                     Hops(allocation_result.route),
                                                     allocation_result.allocated_bandwidth)
                 /\ queue_lengths' = ReleaseQueues(queue_lengths, allocation_result.route,
                                                   allocation_result.allocated_bandwidth)
                 /\ ctrl_last' = [op |-> "deallocate", route_found |-> FALSE,
                                  bandwidth |-> 0, ret |-> allocation_result,
                                  was_committed |-> IsIn(committed_results, allocation_result),
                                  raised |-> FALSE]
                 /\ committed_results' = RemoveFirst(committed_results, allocation_result)
                 /\ active_users' = DelUser(active_users, user_id)
        ELSE UNCHANGED << link_utilization, queue_lengths, ctrl_ops, ctrl_last, ctrl_prev,
                          ns_before, ns_before2, ctrl_call, committed_results,
                          active_users >>

\* _simulation_step, step 3: the events get_events pops, earliest first
EngHandleEvent ==
    /\ eng_pc = "events"
    /\ \E i \in 1 .. Len(event_queue) :
           /\ event_queue[i].time <= eng_time
           /\ \A j \in 1 .. Len(event_queue) : event_queue[i].time <= event_queue[j].time
           /\ event_queue' = SubSeq(event_queue, 1, i - 1)
                                 \o SubSeq(event_queue, i + 1, Len(event_queue))
           /\ HandleSessionEnd(event_queue[i].user_id)
    /\ UNCHANGED << link_capacity, active_flows, sat_active, queue_states, total_requests,
                    successful_allocations, failed_allocations, returned_results,
                    eng_time, eng_pc, routerVars, allocVars, admVars,
                    evVars, concVars >>

EngEventsDone ==
    /\ eng_pc = "events"
    /\ \A i \in 1 .. Len(event_queue) : event_queue[i].time > eng_time
    /\ eng_pc' = "requests"
    /\ UNCHANGED << eng_time, active_users, event_queue, nsVars, routerVars, ctrlVars,
                    allocVars, admVars,
                    evVars, concVars >>

\* _process_user_request(user_request), step 4, for a request whose routing
\* stage has produced route (see ProcessUserRequestOnRoute)
EngProcessUserRequest(user_request, pm, route) ==
    /\ eng_pc = "requests"
    /\ eng_pc' = "refresh"
    /\ LET admission_result == ThresholdDecision(user_request, pm, queue_lengths,
                                                 link_capacity, link_utilization)
       IN  /\ thr_stats' = UpdateStatistics(thr_stats, admission_result)
           /\ adm_ops' = adm_ops + 1
           /\ adm_last' = [controller |-> "threshold",
                           user_request |-> AdmRequest("data", 0, 0), pm |-> pm,
                           result |-> admission_result, base |-> admission_result,
                           adjusted |-> FALSE]
           /\ IF admission_result.decision
                     \in {"accept", "degraded_accept", "partial_accept"}
              THEN /\ CtrlHistory
                   /\ total_requests' = total_requests + 1
                   /\ AllocateAndCommit(
                          ConvertToFlowRequest(user_request, sat_active, now_ms), route)
                   /\ IF ctrl_last'.ret.ok
                      THEN /\ active_users' =
                                  PutUser(active_users,
                                          [user_id |-> user_request.user_id,
                                           allocation_result |-> ctrl_last'.ret,
                                           start_time |-> eng_time,
                                           end_time |-> eng_time
                                                          + user_request.duration_seconds])
                           /\ event_queue' =
                                  Append(event_queue,
                                         [time |-> eng_time + user_request.duration_seconds,
                                          user_id |-> user_request.user_id])
                      ELSE UNCHANGED << active_users, event_queue >>
              ELSE UNCHANGED << link_utilization, queue_lengths, ctrlVars, active_users,
                                event_queue >>
    /\ UNCHANGED << link_capacity, active_flows, sat_active, eng_time, pos_stats,
                    base_stats, routerVars, allocVars, evVars, concVars >>

\* step 5, update_queue_states, after the requests of the step (if any)
EngUpdateQueueStates ==
    /\ eng_pc \in {"requests", "refresh"}
    /\ eng_pc' = "cleanup"
    /\ CtrlHistory
    /\ queue_states' = [n \in SatIds |-> queue_lengths[n]]
    /\ ctrl_last' = [NoCall EXCEPT !.op = "update_queue_states"]
    /\ UNCHANGED << nsVars, total_requests, successful_allocations, failed_allocations,
                    committed_results, returned_results, eng_time, active_users,
                    event_queue, routerVars, allocVars, admVars,
                    evVars, concVars >>

\* the sessions _cleanup_expired_sessions finds expired
ExpiredUsers == SelectSeq(active_users, LAMBDA user_info : eng_time >= user_info.end_time)

\* step 7, _cleanup_expired_sessions: one expired session after the other
EngCleanupSession ==
    /\ eng_pc = "cleanup"
    /\ ExpiredUsers # << >>
    /\ HandleSessionEnd(Head(ExpiredUsers).user_id)
    /\ UNCHANGED << link_capacity, active_flows, sat_active, queue_states, total_requests,
                    successful_allocations, failed_allocations, returned_results,
                    eng_time, event_queue, eng_pc, routerVars, allocVars, admVars,
                    evVars, concVars >>

\* run_simulation: the step is over, the time moves on; the next step starts
\* on the NetworkState its step 1 gets from the adapter
EngNextStep ==
    /\ eng_pc = "cleanup"
    /\ ExpiredUsers = << >>
    /\ eng_time' = eng_time + time_step
    /\ IF eng_time + time_step < MaxDuration
       THEN /\ eng_pc' = "events"
            /\ link_utilization' = AdapterUtilization(link_capacity)
            /\ queue_lengths' = [n \in SatIds |-> 0]
       ELSE /\ eng_pc' = "done"
            /\ UNCHANGED << link_utilization, queue_lengths >>
    /\ UNCHANGED << link_capacity, active_flows, sat_active, active_users, event_queue,
                    routerVars, ctrlVars, allocVars, admVars,
                    evVars, concVars >>

EngNext ==
    \/ EngHandleEvent
    \/ EngEventsDone
    \/ \E user_request \in EngUserRequests, pm \in EngPositioningInputs,
          route \in EngRoutes : EngProcessUserRequest(user_request, pm, route)
    \/ EngUpdateQueueStates
    \/ EngCleanupSession
    \/ EngNextStep

SpecEngine == EngInit /\ [][EngNext]_vars

(***************************************************************************)
(* Claims about the BandwidthAllocator, under SpecAlloc                    *)
(***************************************************************************)

\* C1: after any sequence of allocate and deallocate calls, for every
\* committed allocation and every hop on its route, the bandwidth recorded in
\* link_allocations for that link is at most the link's capacity.
C1_LinkWithinCapacity ==
    \A i \in 1 .. Len(active_allocations) :
        \A k \in DOMAIN Hops(active_allocations[i].route) :
            LET l == Hops(active_allocations[i].route)[k]
            IN  link_allocations[l] <= link_capacity[l]

\* C2: deallocate(flow_id) of a committed flow reduces link_allocations on
\* every link of the flow's route by exactly the bandwidth its commit added,
\* and removes the flow's record, whatever calls happened in between.
C2_DeallocateReversesCommit ==
    [][(alloc_last'.op = "deallocate" /\ alloc_last'.ret = 1 /\ alloc_ops' = alloc_ops + 1)
        => LET f == alloc_last'.flow_id
               info == active_allocations[IndexOfFlow(active_allocations, f)]
           IN  /\ IndexOfFlow(active_allocations', f) = 0
               /\ \A l \in LinkKeys :
                      link_allocations'[l] =
                          link_allocations[l] - committed_bw[f] * HopCount(info.route, l)
      ]_vars

(***************************************************************************)
(* Claims about MCTSRouter.find_route, under SpecRouter                    *)
(***************************************************************************)
NoDuplicates(route) ==
    \A i, j \in 1 .. Len(route) : route[i] = route[j] => i = j

\* C9: every route find_route returns contains no satellite id twice.
C9_RouteLoopFree ==
    (rt_last.op = "find_route" /\ rt_last.ret.found) => NoDuplicates(rt_last.ret.route)

\* find_route has returned a route
C9_Witness ==
    /\ rt_last.op = "find_route"
    /\ rt_last.ret.found
    /\ Len(rt_last.ret.route) >= 1

C3_AllocateDeallocateRestores ==
    (/\ ctrl_last.op = "deallocate"
     /\ ctrl_prev.op = "process_user_request"
     /\ ctrl_prev.ret.ok
     /\ ctrl_last.ret = ctrl_prev.ret)
        => /\ link_utilization = ns_before2.link_utilization
           /\ queue_lengths = ns_before2.queue_lengths

\* a commit that changed both maps has just been released
C3_Witness ==
    /\ ctrl_last.op = "deallocate"
    /\ ctrl_prev.op = "process_user_request"
    /\ ctrl_prev.ret.ok
    /\ ctrl_last.ret = ctrl_prev.ret
    /\ ctrl_last.ret.allocated_bandwidth > 0
    /\ ns_before.link_utilization # ns_before2.link_utilization
    /\ ns_before.queue_lengths # ns_before2.queue_lengths

\* C4: when process_user_request has a route and the bandwidth allocation
\* fails, it returns None and link_utilization, queue_lengths and
\* active_flows of the NetworkState are what they were before the call.
C4_FailedAllocationLeavesState ==
    (/\ ctrl_last.op = "process_user_request"
     /\ ctrl_last.route_found
     /\ ctrl_last.bandwidth <= 0)
        => /\ ctrl_last.ret = NoResult
           /\ NsMaps = ns_before

\* a request was routed, got no bandwidth, on a NetworkState carrying load
C4_Witness ==
    /\ ctrl_last.op = "process_user_request"
    /\ ctrl_last.route_found
    /\ ctrl_last.bandwidth <= 0
    /\ ctrl_last.ret = NoResult
    /\ \E l \in DOMAIN link_utilization : link_utilization[l] > 0

\* C5: deallocate of an AllocationResult that is not committed at the time
\* (never committed, or released already) leaves link_utilization and
\* queue_lengths as they were before the call.
C5_ReleaseUncommittedNoOp ==
    (ctrl_last.op = "deallocate" /\ ~ctrl_last.was_committed) => NsMaps = ns_before

(***************************************************************************)
(* Claims about the admission controllers, under SpecAdm                   *)
(***************************************************************************)

\* C6: every result of make_admission_decision, of either controller, is
\* REJECT exactly when its allocated_bandwidth is 0 and its
\* allocated_satellite is None.
C6_RejectIffNothingAllocated ==
    adm_last.controller # "init"
        => (adm_last.result.decision = "reject"
               <=> (/\ adm_last.result.allocated_bandwidth = 0
                    /\ adm_last.result.allocated_satellite = NoSatellite))

\* the positioning-aware controller has turned an ACCEPT of its base into a REJECT
C6_Witness ==
    /\ adm_last.controller = "positioning_aware"
    /\ adm_last.adjusted
    /\ adm_last.base.decision = "accept"
    /\ adm_last.result.decision = "reject"

\* C7: a result whose decision is ACCEPT allocates exactly the bandwidth the
\* request asked for.
C7_AcceptGrantsRequested ==
    (adm_last.controller # "init" /\ adm_last.result.decision = "accept")
        => adm_last.result.allocated_bandwidth = adm_last.user_request.bandwidth_mbps

\* an ACCEPT on a satellite that has less free bandwidth than its capacity
C7_Witness ==
    /\ adm_last.controller # "init"
    /\ adm_last.result.decision = "accept"
    /\ adm_last.result.allocated_bandwidth = adm_last.user_request.bandwidth_mbps
    /\ CheckBandwidthAvailability(adm_last.result.allocated_satellite, queue_lengths)
           > adm_last.user_request.bandwidth_mbps

\* C8: a result whose decision is DEGRADED_ACCEPT or PARTIAL_ACCEPT
\* allocates more than 0 and less than the bandwidth the request asked for.
C8_DegradedStrictlyBetween ==
    (/\ adm_last.controller # "init"
     /\ adm_last.result.decision \in {"degraded_accept", "partial_accept"})
        => /\ adm_last.result.allocated_bandwidth > 0
           /\ adm_last.result.allocated_bandwidth < adm_last.user_request.bandwidth_mbps

\* the positioning-aware controller has degraded an ACCEPT of its base
C8_Witness ==
    /\ adm_last.controller = "positioning_aware"
    /\ adm_last.adjusted
    /\ adm_last.base.decision = "accept"
    /\ adm_last.result.decision = "degraded_accept"

(***************************************************************************)
(* Scenario D and the QoS floors of the BandwidthAllocator, under SpecAlloc *)
(***************************************************************************)

\* C11: Scenario D.  When a link of capacity 100 carries the 80 Mbps of its
\* active flows, 20 of them held by a BEST_EFFORT flow whose floor is 6, an
\* allocate call for a new
\* CRITICAL flow that requires 30 Mbps and asks for them over that link
\* reclaims the BEST_EFFORT flow down to 6 Mbps and returns at least 30 Mbps.
C11_ScenarioDReclaims ==
    [][\A l \in DOMAIN link_capacity :
          \A i \in 1 .. Len(active_allocations) :
              (/\ alloc_ops' = alloc_ops + 1
               /\ alloc_last'.op = "allocate"
               /\ IndexOfFlow(active_allocations, alloc_last'.flow_id) = 0
               /\ alloc_last'.call.qos_class = "critical"
               /\ alloc_last'.call.bandwidth_requirement = Mbps(30)
               /\ alloc_last'.call.target_bandwidth = Mbps(30)
               /\ HopCount(alloc_last'.call.route, l) > 0
               /\ alloc_last'.call.available = Mbps(20)
               /\ link_capacity[l] = Mbps(100)
               /\ link_allocations[l] = Mbps(80)
               /\ SeqSum([k \in 1 .. Len(active_allocations) |->
                              active_allocations[k].bandwidth
                                  * HopCount(active_allocations[k].route, l)]) = Mbps(80)
               /\ active_allocations[i].qos_class = "best_effort"
               /\ active_allocations[i].bandwidth = Mbps(20)
               /\ active_allocations[i].min_bandwidth = Mbps(6)
               /\ HopCount(active_allocations[i].route, l) > 0)
                  => /\ alloc_last'.ret >= Mbps(30)
                     /\ active_allocations'[i].bandwidth = Mbps(6)
      ]_vars

\* C12: every allocation allocate commits for a CRITICAL or PREMIUM flow is at
\* least the flow's QoS floor, and the floor is covered by bandwidth the call
\* found free on the route or reclaimed from donors.
C12_FloorFromRealBandwidth ==
    (/\ alloc_last.op = "allocate"
     /\ alloc_last.ret > 0
     /\ alloc_last.call.qos_class \in {"critical", "premium"})
        => LET floor == (alloc_last.call.bandwidth_requirement
                             * qos_ratios(alloc_last.call.qos_class)) \div 10
           IN  /\ alloc_last.ret >= floor
               /\ floor <= alloc_last.call.available + alloc_last.call.reclaimed

(***************************************************************************)
(* The scenarios of the ThresholdAdmissionController, under SpecAdm        *)
(***************************************************************************)

AllSatellitesLoaded ==
    \A n \in SatIds : 10 * CalculateSatelliteLoad(n, queue_lengths) > 8 * LoadOne

\* C14: Scenario B.  If every satellite has a load above 0.8, the threshold
\* controller answers every request that passes the basic QoS check with
\* REJECT, allocated_bandwidth 0 and the reason "no available satellite".
C14_AllLoadedRejects ==
    (/\ adm_last.controller = "threshold"
     /\ CheckBasicQos(adm_last.user_request)
     /\ AllSatellitesLoaded)
        => adm_last.result = Reject("no_satellite")

\* a request of 10 Mbps was decided with every queue at 95 and all satellites visible
C14_Witness ==
    /\ adm_last.controller = "threshold"
    /\ adm_last.user_request.bandwidth_mbps = Mbps(10)
    /\ CheckBasicQos(adm_last.user_request)
    /\ \A n \in SatIds : queue_lengths[n] = 95 * 10 * Scale
    /\ adm_last.pm.given /\ adm_last.pm.visible_ids = SatIds
    /\ adm_last.result.reason = "no_satellite"

\* the NetworkState of Scenario A: nothing queued, nothing in use
NetworkIdle ==
    /\ \A n \in SatIds : queue_lengths[n] = 0
    /\ \A l \in DOMAIN link_utilization : link_utilization[l] = 0

\* the result Scenario A expects
ScenarioAResult ==
    /\ adm_last.result.decision = "accept"
    /\ adm_last.result.allocated_bandwidth = adm_last.user_request.bandwidth_mbps
    /\ 10 * adm_last.result.confidence >= 9 * ConfOne

\* C15 as stated: Scenario A.  Every request with bandwidth <= 100 Mbps and
\* max_latency >= 10 ms gets ACCEPT with the requested bandwidth and
\* confidence >= 0.9 from the threshold controller on an idle NetworkState
\* with at least one satellite, whatever else the call is given.
C15_ScenarioAAnyInput ==
    (/\ adm_last.controller = "threshold"
     /\ CheckBasicQos(adm_last.user_request)
     /\ NetworkIdle)
        => ScenarioAResult

\* C15, amended: the same, for calls without positioning metrics or whose
\* positioning metrics list a satellite of the NetworkState as visible with a
\* signal of at least min_signal_strength_dbm (a reachable satellite).
C15_ScenarioAReachable ==
    (/\ adm_last.controller = "threshold"
     /\ CheckBasicQos(adm_last.user_request)
     /\ NetworkIdle
     /\ adm_last.pm.given =>
            /\ adm_last.pm.visible_ids \cap SatIds # {}
            /\ adm_last.pm.signal_strength_dbm >= min_signal_strength_dbm)
        => ScenarioAResult

\* the request of Scenario A was accepted on an idle NetworkState, with
\* positioning metrics that show two of the three satellites
C15_Witness ==
    /\ adm_last.controller = "threshold"
    /\ adm_last.user_request.bandwidth_mbps = Mbps(10)
    /\ adm_last.user_request.max_latency_ms = 50
    /\ NetworkIdle
    /\ adm_last.pm.given /\ adm_last.pm.visible_ids = {0, 1}
    /\ ScenarioAResult

\* C16: a request for more than 100 Mbps or with max_latency below 10 ms is
\* rejected by the threshold controller at its first check, with
\* allocated_bandwidth 0, whatever the NetworkState and the positioning input.
C16_InvalidRequestRejectedFirst ==
    (/\ adm_last.controller = "threshold"
     /\ \/ adm_last.user_request.bandwidth_mbps > Mbps(100)
        \/ adm_last.user_request.max_latency_ms < 10)
        => adm_last.result = Reject("qos")

\* a request with max_latency 5 ms was rejected on an idle NetworkState
C16_Witness ==
    /\ adm_last.controller = "threshold"
    /\ adm_last.user_request.max_latency_ms < 10
    /\ adm_last.user_request.bandwidth_mbps <= Mbps(100)
    /\ NetworkIdle
    /\ adm_last.result = Reject("qos")

(***************************************************************************)
(* Statistics and queue backlogs of the DSROQController, under SpecCtrl    *)
(***************************************************************************)

\* C17: every process_user_request call that fails (no route, no bandwidth,
\* an exception) returns None and adds exactly one to failed_allocations,
\* every other call adds exactly one to successful_allocations, and after
\* every call total_requests = successful_allocations + failed_allocations.
C17_FailuresCountedOnce ==
    [][/\ total_requests' = successful_allocations' + failed_allocations'
       /\ (ctrl_last'.op = "process_user_request" /\ ctrl_ops' = ctrl_ops + 1)
              => /\ total_requests' = total_requests + 1
                 /\ IF ctrl_last'.ret.ok
                    THEN /\ successful_allocations' = successful_allocations + 1
                         /\ failed_allocations' = failed_allocations
                    ELSE /\ ctrl_last'.ret = NoResult
                         /\ failed_allocations' = failed_allocations + 1
                         /\ successful_allocations' = successful_allocations
      ]_vars

\* a call has just failed with an exception, after one success and one
\* other failure
C17_Witness ==
    /\ ctrl_last.op = "process_user_request"
    /\ ctrl_last.raised
    /\ ctrl_last.ret = NoResult
    /\ successful_allocations = 1
    /\ failed_allocations = 2
    /\ total_requests = 3

\* C18: after any sequence of commits, deallocations and update_queue_states
\* calls, every entry of NetworkState.queue_lengths and of the scheduler's
\* queue_states is at least 0.
C18_QueuesNonNegative ==
    \A n \in SatIds : queue_lengths[n] >= 0 /\ queue_states[n] >= 0

\* a deallocate has just released more than a satellite of its route had queued
C18_Witness ==
    /\ ctrl_last.op = "deallocate"
    /\ \E i \in 1 .. Len(ctrl_last.ret.route) :
           /\ ns_before.queue_lengths[ctrl_last.ret.route[i]]
                  < ctrl_last.ret.allocated_bandwidth
           /\ queue_lengths[ctrl_last.ret.route[i]] = 0

(***************************************************************************)
(* The backlog of the LyapunovScheduler, under SpecSched                   *)
(***************************************************************************)

\* C19: over any sequence of schedule_flow calls for flows with positive
\* bandwidth over the same nodes, the backlog of every node in queue_states
\* stays within a fixed bound, here the scheduler's own queue_backlog_limit.
C19_BacklogBounded ==
    \A n \in SatIds : queue_states[n] <= queue_backlog_limit * 10 * Scale

(***************************************************************************)
(* The sessions of the SimulationEngine, under SpecEngine                  *)
(***************************************************************************)

C21_ReclaimLowerAscendingBounded ==
    [][alloc_last'.op = "allocate" /\ alloc_ops' = alloc_ops + 1 =>
         LET call == alloc_last'.call
             others == {i \in 1 .. Len(active_allocations) :
                           active_allocations[i].flow_id # alloc_last'.flow_id}
             weight(i) == qos_weights(active_allocations[i].qos_class)
             after(i) == active_allocations'[
                             IndexOfFlow(active_allocations',
                                         active_allocations[i].flow_id)].bandwidth
             taken == [i \in others |-> active_allocations[i].bandwidth - after(i)]
             floor == (call.bandwidth_requirement * qos_ratios(call.qos_class)) \div 10
             feasible == CalculateFeasibleBandwidth(call.route, call.target_bandwidth,
                                                    link_capacity, link_allocations)
         IN  /\ \A i \in others :
                    /\ IndexOfFlow(active_allocations', active_allocations[i].flow_id) # 0
                    /\ taken[i] >= 0
                    /\ taken[i] > 0 =>
                           /\ weight(i) < qos_weights(call.qos_class)
                           /\ after(i) >= active_allocations[i].min_bandwidth
             /\ \A i, j \in others :
                    taken[j] > 0 /\ weight(i) < weight(j) =>
                        after(i) <= active_allocations[i].min_bandwidth
             /\ SumOver(others, taken) <= Max2(0, floor - feasible)
             /\ call.reclaimed <= Max2(0, floor - feasible)]_vars

\* the last call took bandwidth from two donors, the lighter one first
C21_Witness ==
    /\ alloc_last.op = "allocate"
    /\ alloc_last.call.reclaimed = Mbps(20)
    /\ \E i, j \in 1 .. Len(active_allocations) :
           /\ active_allocations[i].qos_class = "best_effort"
           /\ active_allocations[i].bandwidth = active_allocations[i].min_bandwidth
           /\ active_allocations[j].qos_class = "assured"
           /\ active_allocations[j].bandwidth = Mbps(54)

\* C28: after any sequence of allocate and deallocate calls, for every
\* directed link link_allocations equals the sum of the current bandwidth of
\* the active allocations routed over it (once per hop), and
\* total_allocated_bandwidth equals the sum of the current bandwidth of all
\* active allocations; with no active allocation both are 0.
C28_BookkeepingConserved ==
    /\ \A l \in LinkKeys :
           link_allocations[l] =
               SeqSum([k \in 1 .. Len(active_allocations) |->
                          active_allocations[k].bandwidth
                              * HopCount(active_allocations[k].route, l)])
    /\ total_allocated_bandwidth =
           SeqSum([k \in 1 .. Len(active_allocations) |-> active_allocations[k].bandwidth])

(***************************************************************************)
(* The PositioningAwareAdmissionController, under SpecAdm                  *)
(***************************************************************************)

\* C22: when the base controller returns REJECT, the positioning quality is
\* above 0.8 and the service's positioning importance is below 0.3, the
\* result is DEGRADED_ACCEPT with half of the requested bandwidth.
C22_RejectUpgradedToHalf ==
    (/\ adm_last.controller = "positioning_aware"
     /\ adm_last.pm.given
     /\ adm_last.base.decision = "reject"
     /\ 10 * EvaluatePositioningQuality(adm_last.pm) > 8 * QOne
     /\ ServicePositioningWeight(adm_last.user_request.service_type) < 3)
    => /\ adm_last.result.decision = "degraded_accept"
       /\ adm_last.result.allocated_bandwidth = adm_last.user_request.bandwidth_mbps \div 2

\* C23: without positioning metrics the positioning-aware controller returns
\* the decision, allocated_bandwidth, allocated_satellite and confidence of
\* its base controller for the same request and NetworkState.
C23_NoMetricsSameAsBase ==
    (adm_last.controller = "positioning_aware" /\ ~adm_last.pm.given)
    => LET base == ThresholdDecision(adm_last.user_request, NoMetrics, queue_lengths,
                                     link_capacity, link_utilization)
       IN  /\ adm_last.base = base
           /\ adm_last.result.decision = base.decision
           /\ adm_last.result.allocated_bandwidth = base.allocated_bandwidth
           /\ adm_last.result.allocated_satellite = base.allocated_satellite
           /\ adm_last.result.confidence = base.confidence

\* a navigation request without metrics, accepted as the base controller accepts it
C23_Witness ==
    /\ adm_last.controller = "positioning_aware"
    /\ ~adm_last.pm.given
    /\ adm_last.user_request.service_type = "navigation"
    /\ adm_last.result.decision = "accept"
    /\ adm_last.result.allocated_satellite # NoSatellite

\* C24: a result made by adjusting a base decision that is not REJECT keeps
\* the allocated_satellite of the base result, unless it is the upgrade of a
\* REJECT, which selects one; and it always names a satellite.
C24_AdjustedKeepsSatellite ==
    (/\ adm_last.controller = "positioning_aware"
     /\ adm_last.adjusted
     /\ adm_last.result.decision # "reject")
    => /\ adm_last.base.decision # "reject" =>
              adm_last.result.allocated_satellite = adm_last.base.allocated_satellite
       /\ adm_last.result.allocated_satellite # NoSatellite

\* an ACCEPT adjusted to DEGRADED_ACCEPT on the satellite the base chose
C24_Witness ==
    /\ adm_last.controller = "positioning_aware"
    /\ adm_last.adjusted
    /\ adm_last.base.decision = "accept"
    /\ adm_last.result.decision = "degraded_accept"
    /\ adm_last.result.allocated_bandwidth < adm_last.base.allocated_bandwidth
    /\ adm_last.result.allocated_satellite = adm_last.base.allocated_satellite

(***************************************************************************)
(* process_admission_decision of the DSROQController, under SpecDecision   *)
(***************************************************************************)
\* a step that is a call of process_admission_decision
AdmissionStep == ctrl_ops' = ctrl_ops + 1 /\ ctrl_call'.decision # None

\* C27: process_admission_decision follows the per-flow state machine: a flow
\* with any decision other than REJECT (ACCEPT, DEGRADED_ACCEPT,
\* PARTIAL_ACCEPT or DELAYED_ACCEPT) proceeds to an allocation attempt, which
\* process_user_request counts in total_requests, and a flow with decision
\* REJECT is never allocated: None is returned and the NetworkState and the
\* controller's counters are as they were.
C27_NonRejectAttemptsAllocation ==
    [][AdmissionStep =>
          IF ctrl_call'.decision = "reject"
          THEN /\ ctrl_last'.ret = NoResult
               /\ UNCHANGED << nsVars, total_requests, successful_allocations,
                               failed_allocations, committed_results >>
          ELSE /\ total_requests' = total_requests + 1
               /\ ctrl_last'.op = "process_user_request"]_vars

\* C30: the bandwidth process_admission_decision commits for a request is at
\* most the request's bandwidth requirement after the adjustment for the
\* decision (the admission result's allocated_bandwidth where a
\* DEGRADED_ACCEPT or PARTIAL_ACCEPT carries one), at most the scheduler's
\* rate limit, and at most the route's bottleneck available bandwidth read
\* at allocation time; after the commit no link is used beyond its capacity.
C30_CommitWithinRequestRateAndBottleneck ==
    [][AdmissionStep /\ ctrl_last'.ret # NoResult =>
          LET result == ctrl_last'.ret
              call == ctrl_call'
              flow == [bandwidth_requirement |-> call.bandwidth_requirement]
          IN  /\ result.allocated_bandwidth > 0
              /\ result.allocated_bandwidth <= call.bandwidth_requirement
              /\ (call.decision \in {"degraded_accept", "partial_accept"}
                      /\ call.allocated_bandwidth # 0
                  => result.allocated_bandwidth <= call.allocated_bandwidth)
              /\ result.allocated_bandwidth
                     <= ScheduleFlow(queue_states, flow, result.route).rate_limit_mbps
              /\ result.allocated_bandwidth
                     <= GetPathAvailableBandwidth(result.route, link_capacity,
                                                  link_utilization)
              /\ \A l \in DOMAIN link_capacity :
                     /\ link_utilization'[l] <= link_capacity[l]
                     /\ IsIn(Hops(result.route), l)
                        => link_utilization'[l]
                               = link_utilization[l] + result.allocated_bandwidth]_vars

\* a degraded flow committed at the admission result's allocated bandwidth on
\* a link that was half used, and filling the link exactly is reached too
C30_Witness ==
    /\ ctrl_call.decision = "degraded_accept"
    /\ ctrl_call.allocated_bandwidth = Mbps(5)
    /\ ctrl_last.ret # NoResult
    /\ ctrl_last.ret.allocated_bandwidth = Mbps(5)
    /\ ns_before.link_utilization[<< 0, 1 >>] = Mbps(50)
    /\ link_utilization[<< 0, 1 >>] = Mbps(55)

(***************************************************************************)
(* find_route towards a neighbouring destination, under SpecRouter         *)
(***************************************************************************)
\* the flow a find_route step was called with
FlowOfCall(flow_id) == CHOOSE flow \in RouterFlows : flow.flow_id = flow_id

\* C26: find_route never raises and, called for a flow whose destination
\* satellite differs from the source satellite and is a direct neighbour of
\* it over a link with available capacity >= min_link_capacity, returns a
\* route that starts at the source satellite and ends at the destination
\* satellite.
C26_NeighbourDestinationRouted ==
    [][rt_ops' = rt_ops + 1 /\ rt_last'.op = "find_route"
         /\ UNCHANGED << now_ms, sat_active, link_utilization >> =>
          LET flow == FlowOfCall(rt_last'.flow_id)
              source_satellite ==
                  FindNearestSatellite(flow.source[1], flow.source[2], sat_active)
              destination_satellite ==
                  FindNearestSatellite(flow.destination[1], flow.destination[2], sat_active)
              route == rt_last'.ret
          IN  /\ source_satellite # NoSatellite
              /\ destination_satellite # NoSatellite
              /\ destination_satellite # source_satellite
              /\ destination_satellite
                     \in GetNeighbors(source_satellite, link_capacity, link_utilization)
              => /\ route.found
                 /\ Len(route.route) >= 2
                 /\ route.route[1] = source_satellite
                 /\ route.route[Len(route.route)] = destination_satellite]_vars

(***************************************************************************)
(* EventScheduler: event_queue is a heapq list of Events.  Positions are   *)
(* counted from 1, so the parent of pos is pos \div 2 and its children are *)
(* 2 * pos and 2 * pos + 1.  An Event's data is modelled by the number the *)
(* event was scheduled as, which tells equal-looking events apart.         *)
(***************************************************************************)
MaxEventOps == 5
EventTimes == {1, 2}
EventPriorities == {0, 1}
EventTypes == {"user_arrival", "session_end"}

\* an order that looks at the time only
EventLtByTime(self, other) == self.time < other.time

\* Event.__lt__
EventLt(self, other) ==
    IF self.time # other.time THEN self.time < other.time
    ELSE self.priority < other.priority

\* heapq._siftdown(heap, startpos, pos), newitem being the item taken from pos
RECURSIVE SiftDown(_, _, _, _)
SiftDown(heap, startpos, pos, newitem) ==
    IF pos > startpos /\ EventLt(newitem, heap[pos \div 2])
    THEN SiftDown([heap EXCEPT ![pos] = heap[pos \div 2]], startpos, pos \div 2, newitem)
    ELSE [heap EXCEPT ![pos] = newitem]

\* heapq._siftup(heap, pos): the smaller child is moved up until a leaf is
\* reached, then newitem is sifted down from there
RECURSIVE SiftUpFrom(_, _, _, _)
SiftUpFrom(heap, startpos, pos, newitem) ==
    LET childpos == 2 * pos
        rightpos == childpos + 1
    IN  IF childpos <= Len(heap)
        THEN LET c == IF rightpos <= Len(heap) /\ ~EventLt(heap[childpos], heap[rightpos])
                      THEN rightpos ELSE childpos
             IN  SiftUpFrom([heap EXCEPT ![pos] = heap[c]], startpos, c, newitem)
        ELSE SiftDown(heap, startpos, pos, newitem)

SiftUp(heap, pos) == SiftUpFrom(heap, pos, pos, heap[pos])

\* heapq.heappush
HeapPush(heap, item) == SiftDown(Append(heap, item), 1, Len(heap) + 1, item)

\* heapq.heappop of a non-empty heap
HeapPop(heap) ==
    LET lastelt == heap[Len(heap)]
        rest == SubSeq(heap, 1, Len(heap) - 1)
    IN  IF rest # << >>
        THEN [item |-> rest[1], heap |-> SiftUp([rest EXCEPT ![1] = lastelt], 1)]
        ELSE [item |-> lastelt, heap |-> rest]

\* heapq.heapify: _siftup for i in reversed(range(n // 2))
RECURSIVE HeapifyFrom(_, _)
HeapifyFrom(heap, pos) ==
    IF pos < 1 THEN heap ELSE HeapifyFrom(SiftUp(heap, pos), pos - 1)

Heapify(heap) == HeapifyFrom(heap, Len(heap) \div 2)

\* get_events, the while loop: pops as long as the top is due
RECURSIVE PopDue(_, _, _)
PopDue(heap, current_time, events_to_process) ==
    IF heap # << >> /\ heap[1].time <= current_time
    THEN LET popped == HeapPop(heap)
         IN  PopDue(popped.heap, current_time, Append(events_to_process, popped.item))
    ELSE [event_queue |-> heap, events |-> events_to_process]

\* cancel_events, the loop that keeps what is not cancelled
RECURSIVE KeepEvents(_, _)
KeepEvents(queue, event_type) ==
    IF queue = << >> THEN << >>
    ELSE IF Head(queue).event_type = event_type THEN KeepEvents(Tail(queue), event_type)
    ELSE << Head(queue) >> \o KeepEvents(Tail(queue), event_type)

EventsOf(queue) == {queue[i] : i \in 1 .. Len(queue)}

EvInit ==
    /\ NsQuiet
    /\ AllocFresh /\ RouterFresh /\ CtrlFresh /\ AdmFresh /\ EngFresh
    /\ EvFresh /\ ConcFresh

\* schedule_event(time, event_type, data, priority)
ScheduleEvent(time, event_type, priority) ==
    LET event == [time |-> time, event_type |-> event_type, data |-> total_events + 1,
                  priority |-> priority]
    IN  /\ ev_ops < MaxEventOps
        /\ ev_ops' = ev_ops + 1
        /\ event_queue' = HeapPush(event_queue, event)
        /\ total_events' = total_events + 1
        /\ ev_scheduled' = ev_scheduled \cup {event}
        /\ ev_last' = [op |-> "schedule_event", current_time |-> time, events |-> << >>,
                       before |-> event_queue]
        /\ UNCHANGED << processed_events, ev_delivered, ev_cancelled, eng_time,
                        active_users, eng_pc, allocVars, nsVars, routerVars, ctrlVars,
                        admVars, concVars >>

\* get_events(current_time)
GetEvents(current_time) ==
    LET due == PopDue(event_queue, current_time, << >>)
    IN  /\ ev_ops < MaxEventOps
        /\ ev_ops' = ev_ops + 1
        /\ event_queue' = due.event_queue
        /\ processed_events' = processed_events + Len(due.events)
        /\ ev_delivered' = ev_delivered \o due.events
        /\ ev_last' = [op |-> "get_events", current_time |-> current_time,
                       events |-> due.events, before |-> event_queue]
        /\ UNCHANGED << total_events, ev_scheduled, ev_cancelled, eng_time, active_users,
                        eng_pc, allocVars, nsVars, routerVars, ctrlVars, admVars, concVars >>

\* cancel_events(event_type), and cancel_events() for event_type None
CancelEvents(event_type) ==
    LET new_queue == IF event_type = None THEN << >>
                     ELSE Heapify(KeepEvents(event_queue, event_type))
    IN  /\ ev_ops < MaxEventOps
        /\ ev_ops' = ev_ops + 1
        /\ event_queue' = new_queue
        /\ ev_cancelled' = ev_cancelled \cup (EventsOf(event_queue) \ EventsOf(new_queue))
        /\ ev_last' = [op |-> "cancel_events", current_time |-> 0, events |-> << >>,
                       before |-> event_queue]
        /\ UNCHANGED << total_events, processed_events, ev_scheduled, ev_delivered,
                        eng_time, active_users, eng_pc, allocVars, nsVars, routerVars,
                        ctrlVars, admVars, concVars >>

EvNext ==
    \/ \E time \in EventTimes, event_type \in EventTypes, priority \in EventPriorities :
           ScheduleEvent(time, event_type, priority)
    \/ \E current_time \in {0} \cup EventTimes : GetEvents(current_time)
    \/ \E event_type \in EventTypes \cup {None} : CancelEvents(event_type)

SpecEvents == EvInit /\ [][EvNext]_vars

\* how often an event occurs in a sequence
TimesIn(seq, event) == Cardinality({i \in 1 .. Len(seq) : seq[i] = event})

\* C29: get_events(t) returns exactly the pending events with time <= t, each
\* once, in non-decreasing time order with ties in ascending priority number,
\* removes them from the queue and leaves every event with time > t pending;
\* and every scheduled event is at any moment exactly one of pending once,
\* returned once, or cancelled, so no event is delivered twice or early.
C29_DueEventsOnceInOrder ==
    /\ [][ev_ops' = ev_ops + 1 /\ ev_last'.op = "get_events" =>
            LET events == ev_last'.events
                t == ev_last'.current_time
            IN  /\ EventsOf(events) = {e \in EventsOf(event_queue) : e.time <= t}
                /\ Cardinality(EventsOf(events)) = Len(events)
                /\ \A i, j \in 1 .. Len(events) :
                       i < j => \/ events[i].time < events[j].time
                                \/ /\ events[i].time = events[j].time
                                   /\ events[i].priority <= events[j].priority
                /\ EventsOf(event_queue') = {e \in EventsOf(event_queue) : e.time > t}
                /\ Len(event_queue') = Cardinality(EventsOf(event_queue'))]_vars
    /\ [](\A e \in ev_scheduled :
              TimesIn(event_queue, e) + TimesIn(ev_delivered, e)
                  + (IF e \in ev_cancelled THEN 1 ELSE 0) = 1)

\* three events at one time were scheduled in descending priority order and
\* one later event stays pending; get_events returned the three in ascending
\* priority order
C29_Witness ==
    /\ ev_last.op = "get_events"
    /\ Len(ev_last.events) = 3
    /\ ev_last.events[1].data # 1
    /\ ev_last.events[1].priority < ev_last.events[3].priority
    /\ Len(event_queue) = 1
    /\ event_queue[1].time > ev_last.current_time

(***************************************************************************)
(* process_user_request taken in two steps by requests that may overlap:   *)
(* ReadAvailability is allocate_bandwidth (the availability read and the   *)
(* scheduler's decision), CommitRequest is _update_network_state and the   *)
(* statistics.  As in ProcessUserRequestOnRoute the routing stage has      *)
(* produced the given route.                                               *)
(***************************************************************************)
\* adds the bandwidth to every hop of the route, without the min(1.0, ...)
RECURSIVE AddCommitted(_, _, _)
AddCommitted(committed, hops, bandwidth) ==
    IF hops = << >> THEN committed
    ELSE AddCommitted(IF Head(hops) \in DOMAIN committed
                      THEN [committed EXCEPT ![Head(hops)] = @ + bandwidth]
                      ELSE committed,
                      Tail(hops), bandwidth)

\* process_user_request up to and including allocate_bandwidth
ReadAvailability(user_request, route) ==
    /\ ctrl_ops < MaxCtrlOps
    /\ ~ConvertRaises(user_request, sat_active)
    /\ CtrlHistory
    /\ total_requests' = total_requests + 1
    /\ overlapped' = (overlapped \/ in_flight # << >>)
    /\ LET flow == ConvertToFlowRequest(user_request, sat_active, now_ms)
           ab == AllocateBandwidth(flow, route, link_capacity, link_utilization,
                                   queue_states)
           allocation_result == [ok |-> TRUE, flow_id |-> flow.flow_id, route |-> route,
                                 allocated_bandwidth |-> ab.bandwidth]
       IN  /\ queue_states' = ab.queue_states
           /\ ctrl_last' = [op |-> "allocate_bandwidth", route_found |-> TRUE,
                            bandwidth |-> ab.bandwidth, ret |-> NoResult,
                            was_committed |-> FALSE, raised |-> FALSE]
           /\ IF AllocationFailed(ab.bandwidth)
              THEN /\ failed_allocations' = failed_allocations + 1
                   /\ UNCHANGED in_flight
              ELSE /\ in_flight' = Append(in_flight, allocation_result)
                   /\ UNCHANGED failed_allocations
    /\ UNCHANGED << nsVars, successful_allocations, committed_results, returned_results,
                    link_committed, routerVars, allocVars, admVars, engVars, evVars >>

\* process_user_request from _update_network_state on, for the i-th request
\* in flight
CommitRequest(i) ==
    LET allocation_result == in_flight[i]
        route == allocation_result.route
        allocated_bandwidth == allocation_result.allocated_bandwidth
    IN  /\ link_utilization' = CommitLinks(link_utilization, link_capacity, Hops(route),
                                           allocated_bandwidth)
        /\ queue_lengths' = CommitQueues(queue_lengths, route, allocated_bandwidth)
        /\ link_committed' = AddCommitted(link_committed, Hops(route), allocated_bandwidth)
        /\ successful_allocations' = successful_allocations + 1
        /\ committed_results' = Append(committed_results, allocation_result)
        /\ returned_results' = returned_results \cup {allocation_result}
        /\ ctrl_last' = [op |-> "process_user_request", route_found |-> TRUE,
                         bandwidth |-> allocated_bandwidth, ret |-> allocation_result,
                         was_committed |-> FALSE, raised |-> FALSE]
        /\ in_flight' = SubSeq(in_flight, 1, i - 1) \o SubSeq(in_flight, i + 1, Len(in_flight))
        /\ UNCHANGED << link_capacity, active_flows, sat_active, queue_states,
                        total_requests, failed_allocations, ctrl_ops, ctrl_prev, ns_before,
                        ns_before2, ctrl_call, overlapped, routerVars, allocVars, admVars,
                        engVars, evVars >>

ConcNext ==
    \/ \E user_request \in UserRequests, route \in CtrlRoutes :
           ReadAvailability(user_request, route)
    \/ \E i \in 1 .. Len(in_flight) : CommitRequest(i)

SpecConc == DecisionInit /\ [][ConcNext]_vars

\* C25: as long as requests are processed one at a time (no request reads
\* the availability while another is between its read and its commit), the
\* bandwidth committed on every link is within the link's capacity.  With two
\* requests on a shared link interleaved (both read before either commits) a
\* state with more committed than the capacity is reached: C25_Witness.
C25_SequentialWithinCapacity ==
    ~overlapped => \A l \in DOMAIN link_capacity : link_committed[l] <= link_capacity[l]

\* two requests read the same link before either committed, both have
\* committed, and the link carries more than its capacity
C25_Witness ==
    /\ overlapped
    /\ in_flight = << >>
    /\ Len(committed_results) = 2
    /\ \E l \in DOMAIN link_capacity :
           /\ IsIn(Hops(committed_results[1].route), l)
           /\ IsIn(Hops(committed_results[2].route), l)
           /\ link_committed[l] > link_capacity[l]

====
